---- MODULE Spec2Model ----
(***************************************************************************)
(* A model of the crossword generator: the grid analyser (LayoutHandler),  *)
(* the crossword state with its constraint propagation (CrosswordState),   *)
(* the MCTS engine and the solver driver (fill_current_layout).            *)
(*                                                                         *)
(* Python objects that are shared by reference (Entry, TreeNode) live in   *)
(* heaps: a heap is a sequence of records and an object is its position in *)
(* the heap, so that aliasing and in-place updates can be expressed.       *)
(* Indices stored in the data (row, col, entry index, position in a        *)
(* pattern) are 0-based as in the code; TLA+ sequences are 1-based, so an  *)
(* access adds one.  Words and patterns are sequences of one-letter        *)
(* strings.                                                                *)
(***************************************************************************)
EXTENDS Integers, Sequences, FiniteSets, TLC

VARIABLES
    layout,         \* the grid given to LayoutHandler: cell -> symbol
    words_by_length,\* WordHandler.words_by_length: length -> sorted word list
    heap,           \* the Entry objects allocated so far
    state,          \* walk: the CrosswordState most recently constructed
    prev,           \* walk: <<s>> for the state s take_action was last called on, or <<>>
    last_action,    \* walk: the action of that call (or <<>>)
    pc,             \* driver: where fill_current_layout stands
    raised,         \* driver: the exception that ended the run ("" if none)
    iteration_limit,\* MCTS.iteration_limit
    nodes,          \* the TreeNode objects allocated so far
    root,           \* MCTS.root (a node or None)
    current_node,   \* driver: current_node (a node or None)
    rounds_done,    \* search: rounds executed by the running search
    statistics,     \* search: the statistics table of the last finished search
    history_statistics, \* driver: one row per committed move
    filled_layout,  \* driver: the rendered grid
    solved,         \* driver: the result (meaningful when pc = "done")
    twin,           \* a second run on the same input and random choices (or <<>>)
    call,           \* a call of a function of the library: its name and arguments
    result          \* <<r>> once the call has returned r, <<>> before

input_vars == <<layout, words_by_length>>
walk_vars == <<state, prev, last_action>>
mcts_vars == <<pc, raised, iteration_limit, nodes, root, current_node, rounds_done,
               statistics, history_statistics, filled_layout, solved>>
vars == <<layout, words_by_length, heap, state, prev, last_action, pc, raised,
          iteration_limit, nodes, root, current_node, rounds_done, statistics,
          history_statistics, filled_layout, solved, twin, call, result>>
call_vars == <<call, result>>

(***************************************************************************)
(* Bounds of the model.                                                    *)
(***************************************************************************)
NumRows == 3
NumCols == 3
MaxBlocks == 3
MaxPrefilled == 1
MaxBlocksPrefilled == 1
MaxWords == 3
MaxIterations == 3
MaxWordsPrefilled == 6
MaxCoordinate == 3
MaxLength == 4
MaxRawLength == 4
MaxRawWords == 2
MaxNumWords == 2

(***************************************************************************)
(* Constants of the program.                                               *)
(***************************************************************************)
EMPTY_SYMBOL == "_"
BLOCK_SYMBOL == ""
BLOCK_SEPARATOR == "$"
EMPTY_SYMBOL_FOR_PATTERN_MATCHING == "[A-Z]"
MIN_WORD_LENGTH == 3
ACROSS == "across"
DOWN == "down"
None == -1

\* No function of the library is called on its own.
NoCall == [fn |-> "none"]

\* The letters of the model's alphabet, in ascending order (a part of A-Z).
Alphabet == <<"A", "B">>
Letters == {Alphabet[i] : i \in 1..Len(Alphabet)}

(***************************************************************************)
(* Generic helpers on sequences.                                           *)
(***************************************************************************)
Range(s) == {s[i] : i \in 1..Len(s)}

Min(a, b) == IF a <= b THEN a ELSE b

Max(a, b) == IF a >= b THEN a ELSE b

RECURSIVE Flatten(_)
Flatten(ss) == IF Len(ss) = 0 THEN <<>> ELSE Head(ss) \o Flatten(Tail(ss))

LetterOrd(c) == CHOOSE i \in 1..Len(Alphabet) : Alphabet[i] = c

\* Python's ordering of two upper-case strings (lexicographic).
RECURSIVE WordLess(_, _)
WordLess(v, w) ==
    IF Len(w) = 0 THEN FALSE
    ELSE IF Len(v) = 0 THEN TRUE
    ELSE IF Head(v) # Head(w) THEN LetterOrd(Head(v)) < LetterOrd(Head(w))
    ELSE WordLess(Tail(v), Tail(w))

\* sorted(list(S)) for a set of words.
RECURSIVE SortedWords(_)
SortedWords(S) ==
    IF S = {} THEN <<>>
    ELSE LET m == CHOOSE w \in S : \A v \in S \ {w} : WordLess(w, v)
         IN  <<m>> \o SortedWords(S \ {m})

\* All words of a given length over the alphabet.
WordsOfLength(n) == [1..n -> Letters]

(***************************************************************************)
(* layout_handler.py: get_slice, get_coordinates.                          *)
(***************************************************************************)
Slice(start, stop) == [start |-> start, stop |-> stop]

\* A variant of get_slice with the two orientations exchanged.
get_slice_Exchanged(row, col, orientation) ==
    IF orientation = ACROSS
    THEN <<Slice(row, None), Slice(col, col + 1)>>
    ELSE <<Slice(row, row + 1), Slice(col, None)>>

get_slice(row, col, orientation) ==
    IF orientation = ACROSS
    THEN <<Slice(row, row + 1), Slice(col, None)>>
    ELSE <<Slice(row, None), Slice(col, col + 1)>>

\* A variant of get_coordinates that starts one cell late.
get_coordinates_FromOne(row, col, orientation, length) ==
    IF orientation = ACROSS
    THEN [k \in 1..length |-> <<row, col + k>>]
    ELSE [k \in 1..length |-> <<row + k, col>>]

get_coordinates(row, col, orientation, length) ==
    IF orientation = ACROSS
    THEN [k \in 1..length |-> <<row, col + (k - 1)>>]
    ELSE [k \in 1..length |-> <<row + (k - 1), col>>]

\* The indices a slice selects on an axis of size n (pandas iloc).
SliceIndices(sl, n) ==
    LET stop == IF sl.stop = None THEN n ELSE Min(sl.stop, n)
    IN  [i \in 1..Max(stop - sl.start, 0) |-> sl.start + (i - 1)]

\* layout.iloc[slices].values.flatten(): the selected cells in row-major order.
IlocFlatten(lay, slices) ==
    LET rs == SliceIndices(slices[1], NumRows)
        cs == SliceIndices(slices[2], NumCols)
    IN  [i \in 1..(Len(rs) * Len(cs)) |->
            lay[<<rs[((i - 1) \div Len(cs)) + 1], cs[((i - 1) % Len(cs)) + 1]>>]]

(***************************************************************************)
(* LayoutHandler.extract_entries_from_layout.                              *)
(***************************************************************************)
\* layout.replace(BLOCK_SYMBOL, BLOCK_SEPARATOR)
ReplaceBlocks(lay) ==
    [c \in DOMAIN lay |-> IF lay[c] = BLOCK_SYMBOL THEN BLOCK_SEPARATOR ELSE lay[c]]

\* word.split(BLOCK_SEPARATOR)[0]: the part before the first separator.
RECURSIVE SplitFirst(_)
SplitFirst(word) ==
    IF Len(word) = 0 \/ Head(word) = BLOCK_SEPARATOR THEN <<>>
    ELSE <<Head(word)>> \o SplitFirst(Tail(word))

\* A variant of OrientationsToAdd that puts the down word first.
OrientationsToAdd_DownFirst(lay, row, col) ==
    (IF row = 0 \/ lay[<<row - 1, col>>] = BLOCK_SEPARATOR THEN <<DOWN>> ELSE <<>>)
    \o
    (IF col = 0 \/ lay[<<row, col - 1>>] = BLOCK_SEPARATOR THEN <<ACROSS>> ELSE <<>>)

\* The orientations in which a word starts at (row, col), in the code's order.
OrientationsToAdd(lay, row, col) ==
    (IF col = 0 \/ lay[<<row, col - 1>>] = BLOCK_SEPARATOR THEN <<ACROSS>> ELSE <<>>)
    \o
    (IF row = 0 \/ lay[<<row - 1, col>>] = BLOCK_SEPARATOR THEN <<DOWN>> ELSE <<>>)

\* A variant of EntryAt that drops the words of exactly MIN_WORD_LENGTH too.
EntryAt_DropsMinLength(lay, row, col, orientation) ==
    LET word == SplitFirst(IlocFlatten(lay, get_slice(row, col, orientation)))
    IN  IF Len(word) <= MIN_WORD_LENGTH THEN <<>>
        ELSE <<[pattern |-> word,
                coordinates |-> get_coordinates(row, col, orientation, Len(word))]>>

\* A variant of EntryAt that keeps words of any length.
EntryAt_NoMinLength(lay, row, col, orientation) ==
    LET word == SplitFirst(IlocFlatten(lay, get_slice(row, col, orientation)))
    IN  IF Len(word) < 1 THEN <<>>
        ELSE <<[pattern |-> word,
                coordinates |-> get_coordinates(row, col, orientation, Len(word))]>>

\* The entry (if any) that starts at (row, col) in the given orientation.
EntryAt(lay, row, col, orientation) ==
    LET word == SplitFirst(IlocFlatten(lay, get_slice(row, col, orientation)))
    IN  IF Len(word) < MIN_WORD_LENGTH THEN <<>>
        ELSE <<[pattern |-> word,
                coordinates |-> get_coordinates(row, col, orientation, Len(word))]>>

\* The entries starting at cell number n (row-major) and after it.
RECURSIVE ExtractFrom(_, _)
ExtractFrom(lay, n) ==
    IF n >= NumRows * NumCols THEN <<>>
    ELSE LET row == n \div NumCols
             col == n % NumCols
             os == IF lay[<<row, col>>] = BLOCK_SEPARATOR THEN <<>>
                   ELSE OrientationsToAdd(lay, row, col)
         IN  Flatten([i \in 1..Len(os) |-> EntryAt(lay, row, col, os[i])])
             \o ExtractFrom(lay, n + 1)

\* A sequence of [pattern, coordinates], one per entry, in index order.
extract_entries_from_layout(lay) == ExtractFrom(ReplaceBlocks(lay), 0)

(***************************************************************************)
(* LayoutHandler.get_dependencies.                                         *)
(***************************************************************************)
\* A variant that records only the dependencies on entries of a higher index.
DependenciesOfCoord_LaterOnly(coordinates, pA, pA_coord) ==
    Flatten([pB \in 1..Len(coordinates) |->
        IF pA >= pB THEN <<>>
        ELSE Flatten([pB_pos \in 1..Len(coordinates[pB]) |->
                IF pA_coord = coordinates[pB][pB_pos]
                THEN <<<<pB - 1, pB_pos - 1>>>>
                ELSE <<>>])])

\* The pairs (pB, pB_pos) appended for one coordinate of entry pA.
DependenciesOfCoord(coordinates, pA, pA_coord) ==
    Flatten([pB \in 1..Len(coordinates) |->
        IF pA = pB THEN <<>>
        ELSE Flatten([pB_pos \in 1..Len(coordinates[pB]) |->
                IF pA_coord = coordinates[pB][pB_pos]
                THEN <<<<pB - 1, pB_pos - 1>>>>
                ELSE <<>>])])

get_dependencies(coordinates) ==
    [pA \in 1..Len(coordinates) |->
        Flatten([k \in 1..Len(coordinates[pA]) |->
            DependenciesOfCoord(coordinates, pA, coordinates[pA][k])])]

(***************************************************************************)
(* common.py: convert_pattern_for_matching, and re.fullmatch on its result.*)
(***************************************************************************)
\* The regular expression as a sequence of tokens: a letter or the class [A-Z].
convert_pattern_for_matching(pattern) ==
    [i \in 1..Len(pattern) |->
        IF pattern[i] = EMPTY_SYMBOL THEN EMPTY_SYMBOL_FOR_PATTERN_MATCHING
        ELSE pattern[i]]

\* re.fullmatch(pattern_for_matching, word) is not None
FullMatch(pattern_for_matching, word) ==
    /\ Len(pattern_for_matching) = Len(word)
    /\ \A i \in 1..Len(word) :
          IF pattern_for_matching[i] = EMPTY_SYMBOL_FOR_PATTERN_MATCHING
          THEN word[i] \in Letters
          ELSE word[i] = pattern_for_matching[i]

(***************************************************************************)
(* state.py: Entry and CrosswordState.                                     *)
(***************************************************************************)
Entry(index, length, coordinates, dependencies, pattern, possible_words, num_letters_fixed, word_fixed) ==
    [index |-> index, length |-> length, coordinates |-> coordinates,
     dependencies |-> dependencies, pattern |-> pattern,
     possible_words |-> possible_words,
     num_letters_fixed |-> num_letters_fixed, word_fixed |-> word_fixed]

\* Entry.word: "".join(self.pattern)
Word(e) == e.pattern

\* Entry.num_possible_words
num_possible_words(e) == Len(e.possible_words)

\* A variant of get_next_entry that returns the last minimal element.
get_next_entry_LastMinimal(h, empty_entries) ==
    IF Len(empty_entries) # 0
    THEN empty_entries[
            CHOOSE i \in 1..Len(empty_entries) :
                /\ \A j \in 1..Len(empty_entries) :
                      Len(h[empty_entries[i]].possible_words)
                          <= Len(h[empty_entries[j]].possible_words)
                /\ \A j \in (i + 1)..Len(empty_entries) :
                      Len(h[empty_entries[j]].possible_words)
                          > Len(h[empty_entries[i]].possible_words)]
    ELSE None

\* min(empty_entries, key=num_possible_words): Python's min returns the first
\* minimal element of the list.
get_next_entry(h, empty_entries) ==
    IF Len(empty_entries) # 0
    THEN empty_entries[
            CHOOSE i \in 1..Len(empty_entries) :
                /\ \A j \in 1..Len(empty_entries) :
                      num_possible_words(h[empty_entries[i]])
                          <= num_possible_words(h[empty_entries[j]])
                /\ \A j \in 1..(i - 1) :
                      num_possible_words(h[empty_entries[j]])
                          > num_possible_words(h[empty_entries[i]])]
    ELSE None

\* CrosswordState.__init__: entries is a list of references into the heap h.
CrosswordState(h, entries) ==
    LET IsEmpty(p) == ~h[p].word_fixed
        IsFilled(p) == h[p].word_fixed
        empty_entries == SelectSeq(entries, IsEmpty)
        filled_entries == SelectSeq(entries, IsFilled)
    IN  [entries |-> entries,
         empty_entries |-> empty_entries,
         filled_entries |-> filled_entries,
         words_already_used |->
             [i \in 1..Len(filled_entries) |-> Word(h[filled_entries[i]])],
         next_entry_to_be_filled |-> get_next_entry(h, empty_entries)]

\* CrosswordState.num_options
num_options(h, s) ==
    IF s.next_entry_to_be_filled # None
    THEN num_possible_words(h[s.next_entry_to_be_filled])
    ELSE None

get_possible_actions(h, s) == h[s.next_entry_to_be_filled].possible_words

\* A variant of is_terminal without the failure test.
is_terminal_SuccessOnly(h, s) == Len(s.empty_entries) = 0

\* A variant of is_terminal whose failure test looks at the first empty entry.
is_terminal_FirstEmpty(h, s) ==
    LET success == Len(s.empty_entries) = 0
        fail == /\ Len(s.empty_entries) # 0
                /\ Len(h[s.empty_entries[1]].possible_words) = 0
    IN  success \/ fail

is_terminal(h, s) ==
    LET success == Len(s.empty_entries) = 0
        fail == /\ s.next_entry_to_be_filled # None
                /\ num_possible_words(h[s.next_entry_to_be_filled]) = 0
    IN  success \/ fail

\* A variant of get_reward that counts the empty entries.
get_reward_EmptyEntries(h, s) == Len(s.empty_entries)

\* A variant of get_reward that counts the entries holding at least one letter.
get_reward_AnyLetterFixed(h, s) ==
    Cardinality({i \in 1..Len(s.entries) : h[s.entries[i]].num_letters_fixed > 0})

get_reward(h, s) == Len(s.filled_entries)

(***************************************************************************)
(* CrosswordState.take_action.                                             *)
(***************************************************************************)
\* A variant of UpdateAffected without the deep copy: the letter is written
\* into the pattern list of the old Entry object.
UpdateAffected_NoDeepCopy(h, affected, affected_entry_position, letter, used) ==
    LET affected_old == h[affected]
        pattern == [affected_old.pattern EXCEPT ![affected_entry_position + 1] = letter]
        pattern_for_matching == convert_pattern_for_matching(pattern)
        Keep(word) == /\ FullMatch(pattern_for_matching, word)
                      /\ word \notin Range(used)
        possible_words == SelectSeq(affected_old.possible_words, Keep)
        affected_new == Entry(affected_old.index, affected_old.length,
                              affected_old.coordinates, affected_old.dependencies,
                              pattern, possible_words,
                              affected_old.num_letters_fixed + 1, FALSE)
    IN  Append([h EXCEPT ![affected].pattern = pattern], affected_new)

\* A variant of UpdateAffected that marks the entry word-fixed once all its
\* letters are counted as fixed.
UpdateAffected_FixesWhenComplete(h, affected, affected_entry_position, letter, used) ==
    LET affected_old == h[affected]
        pattern == [affected_old.pattern EXCEPT ![affected_entry_position + 1] = letter]
        pattern_for_matching == convert_pattern_for_matching(pattern)
        Keep(word) == /\ FullMatch(pattern_for_matching, word)
                      /\ word \notin Range(used)
        possible_words == SelectSeq(affected_old.possible_words, Keep)
        affected_new == Entry(affected_old.index, affected_old.length,
                              affected_old.coordinates, affected_old.dependencies,
                              pattern, possible_words,
                              affected_old.num_letters_fixed + 1,
                              affected_old.num_letters_fixed + 1 = affected_old.length)
    IN  Append(h, affected_new)

\* One pass of the loop body for an affected entry that is not word-fixed:
\* the heap after Entry(...) has built affected_new from a deep copy of the
\* old pattern; the new object is the last one of the heap.
UpdateAffected(h, affected, affected_entry_position, letter, used) ==
    LET affected_old == h[affected]
        pattern == [affected_old.pattern EXCEPT ![affected_entry_position + 1] = letter]
        pattern_for_matching == convert_pattern_for_matching(pattern)
        Keep(word) == /\ FullMatch(pattern_for_matching, word)
                      /\ word \notin Range(used)
        possible_words == SelectSeq(affected_old.possible_words, Keep)
        affected_new == Entry(affected_old.index, affected_old.length,
                              affected_old.coordinates, affected_old.dependencies,
                              pattern, possible_words,
                              affected_old.num_letters_fixed + 1, FALSE)
    IN  Append(h, affected_new)

\* The loop over enumerate(next_old.dependencies), from list position k on.
RECURSIVE AffectLoop(_, _, _, _, _, _)
AffectLoop(h, s, new_entries, next_new, action, k) ==
    IF k > Len(next_new.dependencies) THEN [heap |-> h, entries |-> new_entries]
    ELSE LET current_position == k - 1
             affected_entry_index == next_new.dependencies[k][1]
             affected_entry_position == next_new.dependencies[k][2]
             affected == s.entries[affected_entry_index + 1]
         IN  IF h[affected].word_fixed
             THEN AffectLoop(h, s, new_entries, next_new, action, k + 1)
             ELSE LET h2 == UpdateAffected(h, affected, affected_entry_position,
                                           next_new.pattern[current_position + 1],
                                           s.words_already_used \o <<action>>)
                  IN  AffectLoop(h2, s,
                                 [new_entries EXCEPT ![h[affected].index + 1] = Len(h2)],
                                 next_new, action, k + 1)

\* A variant of take_action that leaves the candidates of the filled entry.
take_action_KeepsCandidates(h, s, action) ==
    LET next_old == h[s.next_entry_to_be_filled]
        next_new == Entry(next_old.index, next_old.length, next_old.coordinates,
                          next_old.dependencies, action, next_old.possible_words,
                          next_old.length, TRUE)
        h1 == Append(h, next_new)
        new_entries == [s.entries EXCEPT ![next_old.index + 1] = Len(h1)]
        done == AffectLoop(h1, s, new_entries, next_new, action, 1)
    IN  [heap |-> done.heap, state |-> CrosswordState(done.heap, done.entries)]

\* s.take_action(action) on heap h: the heap afterwards and the new state.
take_action(h, s, action) ==
    LET next_old == h[s.next_entry_to_be_filled]
        next_new == Entry(next_old.index, next_old.length, next_old.coordinates,
                          next_old.dependencies, action, <<action>>,
                          next_old.length, TRUE)
        h1 == Append(h, next_new)
        new_entries == [s.entries EXCEPT ![next_old.index + 1] = Len(h1)]
        done == AffectLoop(h1, s, new_entries, next_new, action, 1)
    IN  [heap |-> done.heap, state |-> CrosswordState(done.heap, done.entries)]

(***************************************************************************)
(* state.py: get_initial_crossword_state, with the fields of LayoutHandler *)
(* and WordHandler it reads.                                               *)
(***************************************************************************)
\* LayoutHandler.entry_lengths and word_lengths (as a set)
EntryLengths(lay) ==
    LET es == extract_entries_from_layout(lay)
    IN  [i \in 1..Len(es) |-> Len(es[i].coordinates)]

WordLengths(lay) == Range(EntryLengths(lay))

InitialEntry(extracted, dependencies, wbl, i) ==
    LET length == Len(extracted[i].coordinates)
        pattern == extracted[i].pattern
        IsFixed(x) == x # EMPTY_SYMBOL
        num_letters_fixed == Len(SelectSeq(pattern, IsFixed))
        word_fixed == num_letters_fixed = length
        pattern_for_matching == convert_pattern_for_matching(pattern)
        Matches(word) == FullMatch(pattern_for_matching, word)
        possible_words ==
            IF word_fixed THEN <<pattern>>
            ELSE IF num_letters_fixed > 0 THEN SelectSeq(wbl[length], Matches)
            ELSE wbl[length]
    IN  Entry(i - 1, length, extracted[i].coordinates, dependencies[i],
              pattern, possible_words, num_letters_fixed, word_fixed)

get_initial_crossword_state(lay, wbl) ==
    LET extracted == extract_entries_from_layout(lay)
        coordinates == [i \in 1..Len(extracted) |-> extracted[i].coordinates]
        dependencies == get_dependencies(coordinates)
        h == [i \in 1..Len(extracted) |-> InitialEntry(extracted, dependencies, wbl, i)]
    IN  [heap |-> h, state |-> CrosswordState(h, [i \in 1..Len(extracted) |-> i])]

(***************************************************************************)
(* The inputs: grids and word lists.                                       *)
(***************************************************************************)
Rows == 0..(NumRows - 1)
Cols == 0..(NumCols - 1)
Cells == Rows \X Cols

\* The subsets of S with at most k elements.
RECURSIVE SubsetsUpTo(_, _)
SubsetsUpTo(S, k) ==
    IF k = 0 THEN {{}}
    ELSE LET smaller == SubsetsUpTo(S, k - 1)
         IN  smaller \cup {T \cup {x} : T \in smaller, x \in S}

\* The grid with blocks B and pre-filled letters f (a function on some cells).
MakeLayout(B, f) ==
    [c \in Cells |-> IF c \in B THEN BLOCK_SYMBOL
                     ELSE IF c \in DOMAIN f THEN f[c]
                     ELSE EMPTY_SYMBOL]

\* WordHandler.separate_words_by_length for the clean words D.
separate_words_by_length(D, word_lengths) ==
    [length \in word_lengths |-> SortedWords({w \in D : Len(w) = length})]

(***************************************************************************)
(* WordHandler.preprocess_words on a raw word list.  A raw item is a       *)
(* string over RawChars or a value that is no string.                      *)
(***************************************************************************)
RawChars == {"a", "B", "-"}

\* str.upper on one character.
Upper(c) == IF c = "a" THEN "A" ELSE c

Str(text) == [isstr |-> TRUE, text |-> text]
NotAString == [isstr |-> FALSE, text |-> <<>>]

\* filter_func: a string whose raw length is one of word_lengths.
filter_func(x, word_lengths) == x.isstr /\ Len(x.text) \in word_lengths

\* map_func: re.sub("[^A-Z]", "", x.upper())
map_func(x) ==
    LET upper == [i \in 1..Len(x.text) |-> Upper(x.text[i])]
        IsAZ(c) == c \in Letters
    IN  SelectSeq(upper, IsAZ)

\* np.random.choice(words, size, replace=False): the samples it can return.
Choice(words, size) ==
    {smp \in [1..size -> Range(words)] :
        \A i, j \in 1..size : smp[i] = smp[j] => i = j}

\* A variant of preprocess_words that tests the length after map_func.
preprocess_words_FilterAfterMap(raw_words, word_lengths, max_num_words) ==
    LET IsStr(x) == x.isstr
        strings == SelectSeq(raw_words, IsStr)
        transformed == [i \in 1..Len(strings) |-> map_func(strings[i])]
        words == SortedWords({w \in Range(transformed) : Len(w) \in word_lengths})
    IN  Choice(words, Min(Len(words), max_num_words))

\* The lists preprocess_words can return (clean_words).
preprocess_words(raw_words, word_lengths, max_num_words) ==
    LET Keep(x) == filter_func(x, word_lengths)
        filtered == SelectSeq(raw_words, Keep)
        transformed == [i \in 1..Len(filtered) |-> map_func(filtered[i])]
        words == SortedWords(Range(transformed))
    IN  Choice(words, Min(Len(words), max_num_words))

\* WordHandler.__init__: the word indexes it can build from raw_words.
WordHandler(raw_words, word_lengths, max_num_words) ==
    {separate_words_by_length(Range(clean_words), word_lengths) :
        clean_words \in preprocess_words(raw_words, word_lengths, max_num_words)}

\* The words a dictionary may hold for a grid: all words of the grid's lengths.
Pool(word_lengths) == UNION {WordsOfLength(n) : n \in word_lengths}

(***************************************************************************)
(* The walk: from the initial state of any grid and word list, take_action *)
(* with any action of get_possible_actions() while the state is not        *)
(* terminal (as expand and rollout_policy do).                             *)
(***************************************************************************)
\* The sets of block cells: at most MaxBlocks blocks, or every cell a block.
BlockSets == SubsetsUpTo(Cells, MaxBlocks) \cup {Cells}

\* The grids: those with at most MaxBlocksPrefilled blocks also with up to
\* MaxPrefilled pre-filled letters.
Layouts ==
    UNION {UNION {{MakeLayout(B, f) : f \in [P -> Letters]} :
                    P \in SubsetsUpTo(Cells \ B,
                                      IF Cardinality(B) <= MaxBlocksPrefilled
                                      THEN MaxPrefilled ELSE 0)} :
             B \in BlockSets}

\* The word lists a grid can be given: at most MaxWords clean words.
WordLists(lay) ==
    LET word_lengths == WordLengths(lay)
    IN  {separate_words_by_length(D, word_lengths) :
            D \in SubsetsUpTo(Pool(word_lengths), MaxWords)}

Init ==
    /\ layout \in Layouts
    /\ words_by_length \in WordLists(layout)
    /\ \E init \in {get_initial_crossword_state(layout, words_by_length)} :
          /\ heap = init.heap
          /\ state = init.state
    /\ prev = <<>>
    /\ last_action = <<>>
    /\ pc = "walk"
    /\ raised = ""
    /\ iteration_limit = 0
    /\ nodes = <<>>
    /\ root = None
    /\ current_node = None
    /\ rounds_done = 0
    /\ statistics = <<>>
    /\ history_statistics = <<>>
    /\ filled_layout = layout
    /\ solved = FALSE
    /\ twin = <<>>
    /\ call = NoCall
    /\ result = <<>>

TakeAction ==
    /\ ~is_terminal(heap, state)
    /\ \E action \in Range(get_possible_actions(heap, state)) :
          LET next == take_action(heap, state, action)
          IN  /\ heap' = next.heap
              /\ state' = next.state
              /\ prev' = <<state>>
              /\ last_action' = action
    /\ UNCHANGED <<input_vars, call_vars, mcts_vars, twin>>

Next == TakeAction

Spec == Init /\ [][Next]_vars

(***************************************************************************)
(* The same walk on the grids without blocks that hold pre-filled letters  *)
(* in the last cell or in the whole last row, with word lists of up to     *)
(* MaxWordsPrefilled words.                                                *)
(***************************************************************************)
PrefilledCells == {{<<NumRows - 1, NumCols - 1>>}, {NumRows - 1} \X Cols}

LayoutsPrefilled ==
    UNION {{MakeLayout({}, f) : f \in [P -> Letters]} : P \in PrefilledCells}

WordListsPrefilled(lay) ==
    LET word_lengths == WordLengths(lay)
    IN  {separate_words_by_length(D, word_lengths) :
            D \in SubsetsUpTo(Pool(word_lengths), MaxWordsPrefilled)}

InitPrefilled ==
    /\ layout \in LayoutsPrefilled
    /\ words_by_length \in WordListsPrefilled(layout)
    /\ \E init \in {get_initial_crossword_state(layout, words_by_length)} :
          /\ heap = init.heap
          /\ state = init.state
    /\ prev = <<>>
    /\ last_action = <<>>
    /\ pc = "walk"
    /\ raised = ""
    /\ iteration_limit = 0
    /\ nodes = <<>>
    /\ root = None
    /\ current_node = None
    /\ rounds_done = 0
    /\ statistics = <<>>
    /\ history_statistics = <<>>
    /\ filled_layout = layout
    /\ solved = FALSE
    /\ twin = <<>>
    /\ call = NoCall
    /\ result = <<>>

NextPrefilled == TakeAction

SpecPrefilled == InitPrefilled /\ [][NextPrefilled]_vars

(***************************************************************************)
(* tree_search.py: TreeNode and the MCTS engine.  A node is its position   *)
(* in the sequence ns of TreeNode objects; children is the dict of the     *)
(* node in insertion order (the key of a child is its action_leading_here).*)
(***************************************************************************)
TreeNode(h, parent, action_leading_here, s) ==
    [parent |-> parent,
     action_leading_here |-> action_leading_here,
     state |-> s,
     children |-> <<>>,
     is_terminal |-> is_terminal(h, s),
     is_fully_expanded |-> is_terminal(h, s),
     num_visits |-> 0,
     reward |-> 0]

\* np.sqrt(np.log(N) / n) in units of 10^-8, for 1 <= n <= N <= 24.
SqrtLogTable ==
    <<<<0>>,
     <<83255461, 58870501>>,
     <<104814707, 74115190, 60514800>>,
     <<117741002, 83255461, 67977799, 58870501>>,
     <<126863624, 89706129, 73244748, 63431812, 56735137>>,
     <<133856620, 94650924, 77282156, 66928310, 59862500, 54646736>>,
     <<139495883, 98638485, 80537986, 69747942, 62384456, 56948956, 52724488>>,
     <<144202689, 101966699, 83255461, 72101344, 64489403, 58870501, 54503493, 50983350>>,
     <<148230381, 104814707, 85580850, 74115190, 66290642, 60514800, 56025818, 52407354, 49410127>>,
     <<151742713, 107298301, 87608696, 75871356, 67861404, 61948703, 57353355, 53649151, 50580904, 47985259>>,
     <<154851389, 109496467, 89403491, 77425695, 69251647, 63217815, 58528324, 54748234, 51617130, 48968309, 46689451>>,
     <<157635867, 111465390, 91011110, 78817933, 70496903, 64354573, 59580757, 55732695, 52545289, 49848838, 47529002, 45505555>>,
     <<160154593, 113246399, 92465297, 80077296, 71623311, 65382839, 60532746, 56623199, 53384864, 50645329, 48288427, 46232649, 44418892>>,
     <<162451757, 114870739, 93791566, 81225878, 72650634, 66320652, 61400993, 57435369, 54150586, 51371756, 48981048, 46895783, 45056011, 43417058>>,
     <<164561545, 116362584, 95009652, 82280772, 73594160, 67181969, 62198418, 58181292, 54853848, 52038930, 49617173, 47504826, 45641161, 43980923, 42489608>>,
     <<166510922, 117741002, 96135126, 83255461, 74465948, 67977799, 62935213, 58870501, 55503641, 52655377, 50204932, 48067563, 46181821, 44501916, 42992935, 41627731>>,
     <<168321518, 119021287, 97180474, 84160759, 75275671, 68716972, 63619554, 59510643, 56107173, 53227938, 50750847, 48590237, 46683990, 44985818, 43460429, 42080380, 40823965>>,
     <<170010934, 120215884, 98155858, 85005467, 76031201, 69406673, 64258093, 60107942, 56670311, 53762178, 51260225, 49077929, 47152549, 45437333, 43896634, 42502733, 41233708, 40071961>>,
     <<171593676, 121335052, 99069655, 85796838, 76739025, 70052825, 64856313, 60667526, 57197892, 54262685, 51737440, 49534828, 47591523, 45860339, 44305297, 42898419, 41617580, 40445017, 39366289>>,
     <<173081838, 122387342, 99928846, 86540919, 77404551, 70660365, 65418786, 61193671, 57693946, 54733283, 52186138, 49964423, 48004265, 46258067, 44689538, 43270460, 41978512, 40795781, 39707697, 38702276>>,
     <<174485599, 123379951, 100739308, 87242800, 78032332, 71233448, 65949358, 61689975, 58161866, 55177191, 52609388, 50369654, 48393598, 46633238, 45051988, 43621400, 42318974, 41126650, 40029742, 39016166, 38075879>>,
     <<175813607, 124318994, 101506034, 87906804, 78626235, 71775605, 66451297, 62159497, 58604536, 55597144, 53009797, 50753017, 48761921, 46988163, 45394878, 43953402, 42641063, 41439665, 40334408, 39313118, 38365674, 37483587>>,
     <<177073268, 125209708, 102233299, 88536634, 79189573, 72289859, 66927404, 62604854, 59024423, 55995484, 53389599, 51116649, 49111288, 47324821, 45720121, 44268317, 42946576, 41736569, 40623394, 39594786, 38640555, 37752148, 36922329>>,
     <<178270969, 126056611, 102924792, 89135484, 79725201, 72778818, 67380093, 63028305, 59423656, 56374230, 53750719, 51462396, 49443471, 47644921, 46029366, 44567742, 43237061, 42018870, 40898165, 39862600, 38901915, 38007498, 37172067, 36389409>>>>

SqrtLog(N, n) == SqrtLogTable[N][n]

\* A node value r + e * 10^-8, kept as the pair of its two summands.
Value(r, e) == [r |-> r, e |-> e]

\* -1, 0 or 1 as value v is less than, equal to or greater than w.
CompareValues(v, w) ==
    LET a == (v.r - w.r) * 100000000
        b == v.e - w.e
        Sign(x) == IF x > 0 THEN 1 ELSE IF x < 0 THEN -1 ELSE 0
    IN  IF Sign(a) = Sign(b) THEN Sign(a)
        ELSE IF Sign(a) = 0 THEN Sign(b)
        ELSE IF Sign(b) = 0 THEN Sign(a)
        ELSE Sign(a + b)

\* A variant of the node value that keeps the value of a dead end.
NodeValue_NoDeadEndReset(ns, h, parent, child, exploration_value) ==
    Value(ns[child].reward,
          exploration_value * SqrtLog(ns[parent].num_visits, ns[child].num_visits))

\* child.reward + exploration_value * sqrt(log(parent.num_visits) / child.num_visits),
\* replaced by 0 when the child is a dead end.
NodeValue(ns, h, parent, child, exploration_value) ==
    IF num_options(h, ns[child].state) = 0 THEN Value(0, 0)
    ELSE Value(ns[child].reward,
               exploration_value * SqrtLog(ns[parent].num_visits, ns[child].num_visits))

\* The loop of get_best_child from the i-th child on; best.node = None stands
\* for the initial best_value = best_options = -inf.  Comparing the options
\* of two children with > raises TypeError when one of them is None.
RECURSIVE BestChildLoop(_, _, _, _, _, _)
BestChildLoop(ns, h, parent, exploration_value, i, best) ==
    IF i > Len(ns[parent].children) THEN [raised |-> "", node |-> best.node]
    ELSE LET child == ns[parent].children[i]
             node_value == NodeValue(ns, h, parent, child, exploration_value)
             node_options == num_options(h, ns[child].state)
             taken == [node |-> child, value |-> node_value, options |-> node_options]
             cmp == IF best.node = None THEN 1
                    ELSE CompareValues(node_value, best.value)
         IN  IF cmp > 0
             THEN BestChildLoop(ns, h, parent, exploration_value, i + 1, taken)
             ELSE IF cmp = 0
             THEN IF node_options = None \/ best.options = None
                  THEN [raised |-> "TypeError", node |-> None]
                  ELSE IF node_options > best.options
                  THEN BestChildLoop(ns, h, parent, exploration_value, i + 1, taken)
                  ELSE BestChildLoop(ns, h, parent, exploration_value, i + 1, best)
             ELSE BestChildLoop(ns, h, parent, exploration_value, i + 1, best)

get_best_child(ns, h, parent, exploration_value) ==
    BestChildLoop(ns, h, parent, exploration_value, 1,
                  [node |-> None, value |-> Value(0, 0), options |-> None])

\* A variant of expand that takes the last action that is not yet a child.
expand_LastMissing(ns, h, node) ==
    LET actions == get_possible_actions(h, ns[node].state)
        known == {ns[c].action_leading_here : c \in Range(ns[node].children)}
        missing == {i \in 1..Len(actions) : actions[i] \notin known}
    IN  IF missing = {}
        THEN [raised |-> "RuntimeError", nodes |-> ns, heap |-> h, node |-> None]
        ELSE LET i == CHOOSE m \in missing : \A k \in missing : m >= k
                 next == take_action(h, ns[node].state, actions[i])
                 new_child_node == TreeNode(next.heap, node, actions[i], next.state)
                 ns1 == Append(ns, new_child_node)
                 children == Append(ns[node].children, Len(ns1))
             IN  [raised |-> "",
                  nodes |-> [ns1 EXCEPT ![node].children = children,
                                        ![node].is_fully_expanded =
                                            IF Len(actions) = Len(children) THEN TRUE ELSE @],
                  heap |-> next.heap,
                  node |-> Len(ns1)]

\* expand: the first action that is not yet a child becomes a new child.
expand(ns, h, node) ==
    LET actions == get_possible_actions(h, ns[node].state)
        known == {ns[c].action_leading_here : c \in Range(ns[node].children)}
        missing == {i \in 1..Len(actions) : actions[i] \notin known}
    IN  IF missing = {}
        THEN [raised |-> "RuntimeError", nodes |-> ns, heap |-> h, node |-> None]
        ELSE LET i == CHOOSE m \in missing : \A k \in missing : m <= k
                 next == take_action(h, ns[node].state, actions[i])
                 new_child_node == TreeNode(next.heap, node, actions[i], next.state)
                 ns1 == Append(ns, new_child_node)
                 children == Append(ns[node].children, Len(ns1))
             IN  [raised |-> "",
                  nodes |-> [ns1 EXCEPT ![node].children = children,
                                        ![node].is_fully_expanded =
                                            IF Len(actions) = Len(children) THEN TRUE ELSE @],
                  heap |-> next.heap,
                  node |-> Len(ns1)]

RECURSIVE select_node(_, _, _, _)
select_node(ns, h, node, exploration_constant) ==
    IF ns[node].is_terminal
    THEN [raised |-> "", nodes |-> ns, heap |-> h, node |-> node]
    ELSE IF ~ns[node].is_fully_expanded THEN expand(ns, h, node)
    ELSE LET best == get_best_child(ns, h, node, exploration_constant)
         IN  IF best.raised # ""
             THEN [raised |-> best.raised, nodes |-> ns, heap |-> h, node |-> None]
             ELSE IF best.node = None
             THEN [raised |-> "AttributeError", nodes |-> ns, heap |-> h, node |-> None]
             ELSE select_node(ns, h, best.node, exploration_constant)

\* The loop of rollout_policy from state s on, after the random choices
\* made so far: a choice <<n, i>> is the draw of the i-th of n actions by
\* np.random.choice.
RECURSIVE RolloutLoop(_, _, _)
RolloutLoop(h, s, choices) ==
    IF is_terminal(h, s)
    THEN {[raised |-> "", reward |-> get_reward(h, s), heap |-> h, choices |-> choices]}
    ELSE IF Len(get_possible_actions(h, s)) = 0
    THEN {[raised |-> "Exception", reward |-> 0, heap |-> h, choices |-> choices]}
    ELSE LET actions == get_possible_actions(h, s)
         IN  UNION {LET next == take_action(h, s, actions[i])
                    IN  RolloutLoop(next.heap, next.state,
                                    Append(choices, <<Len(actions), i>>)) :
                        i \in 1..Len(actions)}

\* rollout_policy: the outcomes of all sequences of random choices.  The
\* heap of an outcome is the heap when the rollout returns.
rollout_policy(h, s) == RolloutLoop(h, s, <<>>)

\* A variant of the replayed rollout that draws its choices afresh.
rollout_replay_Unseeded(h, s, choices) == rollout_policy(h, s)

\* rollout_policy under a random generator that repeats the given choices:
\* drawing from n actions returns the recorded index when the next recorded
\* draw was from n actions too; any other draw is not determined by them.
RECURSIVE rollout_replay(_, _, _)
rollout_replay(h, s, choices) ==
    IF is_terminal(h, s)
    THEN {[raised |-> "", reward |-> get_reward(h, s), heap |-> h, choices |-> <<>>]}
    ELSE IF Len(get_possible_actions(h, s)) = 0
    THEN {[raised |-> "Exception", reward |-> 0, heap |-> h, choices |-> <<>>]}
    ELSE LET actions == get_possible_actions(h, s)
             drawn == IF Len(choices) > 0 /\ choices[1][1] = Len(actions)
                      THEN {choices[1][2]} ELSE 1..Len(actions)
             rest == IF Len(choices) > 0 THEN Tail(choices) ELSE <<>>
         IN  UNION {LET next == take_action(h, s, actions[i])
                    IN  rollout_replay(next.heap, next.state, rest) : i \in drawn}

\* A variant of backpropagate that stops below the root.
RECURSIVE backpropagate_StopsBelowRoot(_, _, _)
backpropagate_StopsBelowRoot(ns, node, reward) ==
    IF node = None \/ ns[node].parent = None THEN ns
    ELSE backpropagate_StopsBelowRoot([ns EXCEPT ![node].num_visits = @ + 1,
                                                 ![node].reward = Max(reward, @)],
                                      ns[node].parent, reward)

\* A variant of backpropagate that stores the received reward as it is.
RECURSIVE backpropagate_Overwrite(_, _, _)
backpropagate_Overwrite(ns, node, reward) ==
    IF node = None THEN ns
    ELSE backpropagate_Overwrite([ns EXCEPT ![node].num_visits = @ + 1,
                                            ![node].reward = reward],
                                 ns[node].parent, reward)

RECURSIVE backpropagate(_, _, _)
backpropagate(ns, node, reward) ==
    IF node = None THEN ns
    ELSE backpropagate([ns EXCEPT ![node].num_visits = @ + 1,
                                  ![node].reward = Max(reward, @)],
                       ns[node].parent, reward)

\* execute_round: the possible results of one round from the root.  The
\* Entry objects a rollout allocates are unreachable once it has returned,
\* so the heap keeps the objects it held when the rollout started.
execute_round(ns, h, r, exploration_constant) ==
    LET sel == select_node(ns, h, r, exploration_constant)
    IN  IF sel.raised # ""
        THEN {[raised |-> sel.raised, nodes |-> ns, heap |-> h, choices |-> <<>>]}
        ELSE {IF out.raised # ""
              THEN [raised |-> out.raised, nodes |-> sel.nodes, heap |-> sel.heap,
                    choices |-> out.choices]
              ELSE [raised |-> "",
                    nodes |-> backpropagate(sel.nodes, sel.node, out.reward),
                    heap |-> SubSeq(out.heap, 1, Len(sel.heap)),
                    choices |-> out.choices] :
                  out \in rollout_policy(sel.heap, sel.nodes[sel.node].state)}

\* execute_round under a random generator that repeats the given choices.
execute_round_seeded(ns, h, r, exploration_constant, choices) ==
    LET sel == select_node(ns, h, r, exploration_constant)
    IN  IF sel.raised # ""
        THEN {[raised |-> sel.raised, nodes |-> ns, heap |-> h]}
        ELSE {IF out.raised # ""
              THEN [raised |-> out.raised, nodes |-> sel.nodes, heap |-> sel.heap]
              ELSE [raised |-> "",
                    nodes |-> backpropagate(sel.nodes, sel.node, out.reward),
                    heap |-> SubSeq(out.heap, 1, Len(sel.heap))] :
                  out \in rollout_replay(sel.heap, sel.nodes[sel.node].state, choices)}

\* The statistics table search builds from the children of the root.
Statistics(ns, h, r) ==
    [i \in 1..Len(ns[r].children) |->
        LET node == ns[ns[r].children[i]]
        IN  [action |-> node.action_leading_here,
             Visits |-> node.num_visits,
             Reward |-> node.reward,
             Options |-> num_options(h, node.state)]]

RECURSIVE KnownDepthLoop(_, _, _)
KnownDepthLoop(ns, parents, known_generations) ==
    IF ~(\A q \in parents : ns[q].is_fully_expanded) THEN known_generations
    ELSE LET children == UNION {Range(ns[q].children) : q \in parents}
         IN  IF children = {} THEN known_generations
             ELSE KnownDepthLoop(ns, children, known_generations + 1)

get_known_depth(ns, r) == KnownDepthLoop(ns, {r}, 0)

(***************************************************************************)
(* optimizer.py: fill_current_layout, the solver driver.                   *)
(***************************************************************************)
\* LayoutHandler.num_entries, the exploration constant of the engine.
num_entries(lay) == Len(extract_entries_from_layout(lay))

\* A variant of the final test that wants a grid with entries.
Solved_HasEntries(final_state) ==
    final_state.next_entry_to_be_filled = None /\ Len(final_state.entries) > 0

\* A variant of the final test that reports success once a word was placed.
Solved_SomeEntryFilled(final_state) == Len(final_state.filled_entries) > 0

\* The final test of fill_current_layout.
Solved(final_state) == final_state.next_entry_to_be_filled = None

InitMCTS ==
    /\ layout \in {MakeLayout(B, <<>>) : B \in BlockSets}
    /\ words_by_length \in WordLists(layout)
    /\ iteration_limit \in 0..MaxIterations
    /\ pc = "start"
    /\ raised = ""
    /\ heap = <<>>
    /\ nodes = <<>>
    /\ root = None
    /\ current_node = None
    /\ rounds_done = 0
    /\ statistics = <<>>
    /\ history_statistics = <<>>
    /\ filled_layout = layout
    /\ solved = FALSE
    /\ state = None
    /\ prev = <<>>
    /\ last_action = <<>>
    /\ twin = <<>>
    /\ call = NoCall
    /\ result = <<>>

\* MCTS.__init__ rejects an iteration limit below one.
Reject ==
    /\ pc = "start"
    /\ iteration_limit < 1
    /\ pc' = "error"
    /\ raised' = "ValueError"
    /\ UNCHANGED <<input_vars, call_vars, walk_vars, heap, iteration_limit, nodes, root,
                   current_node, rounds_done, statistics, history_statistics,
                   filled_layout, solved>>

\* A variant of the set-up that accepts every iteration limit.
Start_AnyLimit ==
    /\ pc = "start"
    /\ \E init \in {get_initial_crossword_state(layout, words_by_length)} :
          /\ heap' = init.heap
          /\ nodes' = <<TreeNode(init.heap, None, <<>>, init.state)>>
    /\ current_node' = 1
    /\ pc' = "loop"
    /\ UNCHANGED <<input_vars, call_vars, walk_vars, raised, iteration_limit, root, rounds_done,
                   statistics, history_statistics, filled_layout, solved>>

\* The engine, the initial state and the root node are set up.
Start ==
    /\ pc = "start"
    /\ iteration_limit >= 1
    /\ \E init \in {get_initial_crossword_state(layout, words_by_length)} :
          /\ heap' = init.heap
          /\ nodes' = <<TreeNode(init.heap, None, <<>>, init.state)>>
    /\ current_node' = 1
    /\ pc' = "loop"
    /\ UNCHANGED <<input_vars, call_vars, walk_vars, raised, iteration_limit, root, rounds_done,
                   statistics, history_statistics, filled_layout, solved>>

\* A variant of the start of search that keeps the parent link of the root.
SearchBegin_KeepParent ==
    /\ pc = "loop"
    /\ ~is_terminal(heap, nodes[current_node].state)
    /\ root' = current_node
    /\ rounds_done' = 0
    /\ pc' = "search"
    /\ UNCHANGED <<input_vars, call_vars, walk_vars, heap, raised, iteration_limit, current_node,
                   statistics, history_statistics, filled_layout, solved, nodes>>

\* The driver loop calls search on a non-terminal node: the node becomes the
\* root and loses its parent link.
SearchBegin ==
    /\ pc = "loop"
    /\ ~is_terminal(heap, nodes[current_node].state)
    /\ root' = current_node
    /\ nodes' = [nodes EXCEPT ![current_node].parent = None]
    /\ rounds_done' = 0
    /\ pc' = "search"
    /\ UNCHANGED <<input_vars, call_vars, walk_vars, heap, raised, iteration_limit, current_node,
                   statistics, history_statistics, filled_layout, solved>>

\* The effect of a round with result res on the engine.
RoundEffect(res) ==
    /\ nodes' = res.nodes
    /\ heap' = res.heap
    /\ raised' = res.raised
    /\ pc' = IF res.raised # "" THEN "error" ELSE "search"
    /\ rounds_done' = rounds_done + 1
    /\ UNCHANGED <<input_vars, call_vars, walk_vars, iteration_limit, root, current_node,
                   statistics, history_statistics, filled_layout, solved>>

\* One pass of the loop of search.
ExecuteRound ==
    /\ pc = "search"
    /\ rounds_done < iteration_limit
    /\ \E res \in execute_round(nodes, heap, root, num_entries(layout)) : RoundEffect(res)

\* The grid after the letters of an entry have been written into it.
Render(lay, e) ==
    [c \in DOMAIN lay |->
        IF \E k \in 1..Len(e.coordinates) : e.coordinates[k] = c
        THEN e.pattern[CHOOSE k \in 1..Len(e.coordinates) : e.coordinates[k] = c]
        ELSE lay[c]]

\* A variant of CommitMove that counts the candidates after the move.
CommitMove_OptionsAfterFilling(ns, h, r, run) ==
    LET best == get_best_child(ns, h, r, 0)
    IN  IF best.raised # "" \/ best.node = None
        THEN [run EXCEPT !.pc = "error",
                         !.raised = IF best.raised # "" THEN best.raised
                                    ELSE "AttributeError"]
        ELSE LET entry_before_filling ==
                     h[ns[ns[best.node].parent].state.next_entry_to_be_filled]
                 entry_after_filling ==
                     h[ns[best.node].state.entries[entry_before_filling.index + 1]]
                 chosen_word == Word(entry_after_filling)
                 table == Statistics(ns, h, r)
                 row == CHOOSE i \in 1..Len(table) : table[i].action = chosen_word
             IN  [run EXCEPT
                    !.current_node = best.node,
                    !.statistics = table,
                    !.history_statistics = Append(@,
                          [index |-> entry_before_filling.index,
                           options |-> num_possible_words(entry_after_filling),
                           word |-> chosen_word,
                           expected_reward |-> table[row].Reward,
                           num_visits |-> table[row].Visits,
                           known_future_generations |-> get_known_depth(ns, r)]),
                    !.filled_layout = Render(@, entry_after_filling),
                    !.pc = "loop"]

\* The end of search and the rest of the loop body of the driver: the best
\* child of root r is committed.  run holds current_node, statistics,
\* history_statistics, filled_layout, pc and raised; the result holds them
\* after the move.
CommitMove(ns, h, r, run) ==
    LET best == get_best_child(ns, h, r, 0)
    IN  IF best.raised # "" \/ best.node = None
        THEN [run EXCEPT !.pc = "error",
                         !.raised = IF best.raised # "" THEN best.raised
                                    ELSE "AttributeError"]
        ELSE LET entry_before_filling ==
                     h[ns[ns[best.node].parent].state.next_entry_to_be_filled]
                 entry_after_filling ==
                     h[ns[best.node].state.entries[entry_before_filling.index + 1]]
                 chosen_word == Word(entry_after_filling)
                 table == Statistics(ns, h, r)
                 row == CHOOSE i \in 1..Len(table) : table[i].action = chosen_word
             IN  [run EXCEPT
                    !.current_node = best.node,
                    !.statistics = table,
                    !.history_statistics = Append(@,
                          [index |-> entry_before_filling.index,
                           options |-> num_possible_words(entry_before_filling),
                           word |-> chosen_word,
                           expected_reward |-> table[row].Reward,
                           num_visits |-> table[row].Visits,
                           known_future_generations |-> get_known_depth(ns, r)]),
                    !.filled_layout = Render(@, entry_after_filling),
                    !.pc = "loop"]

\* search returns the best child and the driver commits it.
Commit ==
    /\ pc = "search"
    /\ rounds_done = iteration_limit
    /\ LET res == CommitMove(nodes, heap, root,
                             [current_node |-> current_node,
                              statistics |-> statistics,
                              history_statistics |-> history_statistics,
                              filled_layout |-> filled_layout,
                              pc |-> pc,
                              raised |-> raised])
       IN  /\ current_node' = res.current_node
           /\ statistics' = res.statistics
           /\ history_statistics' = res.history_statistics
           /\ filled_layout' = res.filled_layout
           /\ pc' = res.pc
           /\ raised' = res.raised
    /\ UNCHANGED <<input_vars, call_vars, walk_vars, heap, iteration_limit, nodes, root,
                   rounds_done, solved>>

\* The loop ends on a terminal state and the result is computed.
Finish ==
    /\ pc = "loop"
    /\ is_terminal(heap, nodes[current_node].state)
    /\ solved' = Solved(nodes[current_node].state)
    /\ pc' = "done"
    /\ UNCHANGED <<input_vars, call_vars, walk_vars, heap, raised, iteration_limit, nodes, root,
                   current_node, rounds_done, statistics, history_statistics,
                   filled_layout>>

NextMCTS ==
    \/ Reject /\ UNCHANGED twin
    \/ Start /\ UNCHANGED twin
    \/ SearchBegin /\ UNCHANGED twin
    \/ ExecuteRound /\ UNCHANGED twin
    \/ Commit /\ UNCHANGED twin
    \/ Finish /\ UNCHANGED twin

SpecMCTS == InitMCTS /\ [][NextMCTS]_vars

(***************************************************************************)
(* Two runs of the driver on the same grid, word list and iteration_limit  *)
(* whose random generators were seeded alike (np.random.seed): the run of  *)
(* the variables above and a second run kept in twin, a record of the      *)
(* second run's pc, raised, heap, nodes, root, current_node, rounds_done,  *)
(* statistics, history_statistics, filled_layout and solved.  Both take    *)
(* the same steps; in a round the second run's generator repeats the       *)
(* choices of the first.  twin.drawn tells whether any rollout had to      *)
(* choose among two or more actions.                                       *)
(***************************************************************************)
TwinStart ==
    twin' = LET init == get_initial_crossword_state(layout, words_by_length)
            IN  [pc |-> "loop",
                 raised |-> "",
                 heap |-> init.heap,
                 nodes |-> <<TreeNode(init.heap, None, <<>>, init.state)>>,
                 root |-> None,
                 current_node |-> 1,
                 rounds_done |-> 0,
                 statistics |-> <<>>,
                 history_statistics |-> <<>>,
                 filled_layout |-> layout,
                 solved |-> FALSE,
                 drawn |-> FALSE]

TwinSearchBegin ==
    /\ twin.pc = "loop"
    /\ ~is_terminal(twin.heap, twin.nodes[twin.current_node].state)
    /\ twin' = [twin EXCEPT !.root = twin.current_node,
                            !.nodes[twin.current_node].parent = None,
                            !.rounds_done = 0,
                            !.pc = "search"]

\* Both runs execute a round; the second repeats the choices of the first.
ExecuteRoundSeeded ==
    /\ pc = "search"
    /\ rounds_done < iteration_limit
    /\ twin.pc = "search"
    /\ twin.rounds_done < iteration_limit
    /\ \E res \in execute_round(nodes, heap, root, num_entries(layout)) :
          /\ RoundEffect(res)
          /\ \E other \in execute_round_seeded(twin.nodes, twin.heap, twin.root,
                                                num_entries(layout), res.choices) :
                twin' = [twin EXCEPT
                           !.nodes = other.nodes,
                           !.heap = other.heap,
                           !.raised = other.raised,
                           !.pc = IF other.raised # "" THEN "error" ELSE "search",
                           !.rounds_done = @ + 1,
                           !.drawn = @ \/ \E k \in 1..Len(res.choices) :
                                                res.choices[k][1] >= 2]

TwinCommit ==
    /\ twin.pc = "search"
    /\ twin.rounds_done = iteration_limit
    /\ twin' = CommitMove(twin.nodes, twin.heap, twin.root, twin)

TwinFinish ==
    /\ twin.pc = "loop"
    /\ is_terminal(twin.heap, twin.nodes[twin.current_node].state)
    /\ twin' = [twin EXCEPT !.solved = Solved(twin.nodes[twin.current_node].state),
                            !.pc = "done"]

InitTwin == InitMCTS /\ iteration_limit >= 1

NextTwin ==
    \/ Start /\ TwinStart
    \/ SearchBegin /\ TwinSearchBegin
    \/ ExecuteRoundSeeded
    \/ Commit /\ TwinCommit
    \/ Finish /\ TwinFinish

SpecTwin == InitTwin /\ [][NextTwin]_vars

(***************************************************************************)
(* The functions of the library called on their own: get_coordinates and   *)
(* get_slice of layout_handler.py on any cell of the grid or one step      *)
(* beyond its edge, and WordHandler.__init__ on any raw word list.         *)
(***************************************************************************)
SeqsUpTo(S, n) == UNION {[1..k -> S] : k \in 0..n}

RawItems == {Str(t) : t \in SeqsUpTo(RawChars, MaxRawLength)} \cup {NotAString}

Calls ==
    {[fn |-> "get_coordinates", row |-> r, col |-> c, orientation |-> o, length |-> n] :
        r \in 0..MaxCoordinate, c \in 0..MaxCoordinate, o \in {ACROSS, DOWN},
        n \in 0..MaxLength}
    \cup
    {[fn |-> "get_slice", row |-> r, col |-> c, orientation |-> o] :
        r \in 0..NumRows, c \in 0..NumCols, o \in {ACROSS, DOWN}}
    \cup
    {[fn |-> "WordHandler", raw_words |-> raw, word_lengths |-> wl, max_num_words |-> m] :
        raw \in SeqsUpTo(RawItems, MaxRawWords),
        wl \in {{}, {MIN_WORD_LENGTH}, {MIN_WORD_LENGTH, MIN_WORD_LENGTH + 1}},
        m \in 1..MaxNumWords}

InitCalls ==
    /\ call \in Calls
    /\ result = <<>>
    /\ layout = MakeLayout({}, <<>>)
    /\ words_by_length = <<>>
    /\ iteration_limit = 0
    /\ pc = "call"
    /\ raised = ""
    /\ heap = <<>>
    /\ nodes = <<>>
    /\ root = None
    /\ current_node = None
    /\ rounds_done = 0
    /\ statistics = <<>>
    /\ history_statistics = <<>>
    /\ filled_layout = layout
    /\ solved = FALSE
    /\ state = None
    /\ prev = <<>>
    /\ last_action = <<>>
    /\ twin = <<>>

CallGetCoordinates ==
    /\ call.fn = "get_coordinates"
    /\ result = <<>>
    /\ result' = <<get_coordinates(call.row, call.col, call.orientation, call.length)>>
    /\ UNCHANGED <<input_vars, walk_vars, mcts_vars, heap, twin, call>>

CallGetSlice ==
    /\ call.fn = "get_slice"
    /\ result = <<>>
    /\ result' = <<get_slice(call.row, call.col, call.orientation)>>
    /\ UNCHANGED <<input_vars, walk_vars, mcts_vars, heap, twin, call>>

CallWordHandler ==
    /\ call.fn = "WordHandler"
    /\ result = <<>>
    /\ \E index \in WordHandler(call.raw_words, call.word_lengths, call.max_num_words) :
          result' = <<index>>
    /\ UNCHANGED <<input_vars, walk_vars, mcts_vars, heap, twin, call>>

NextCalls ==
    \/ CallGetCoordinates
    \/ CallGetSlice
    \/ CallWordHandler

SpecCalls == InitCalls /\ [][NextCalls]_vars


(***************************************************************************)
(* Views of a state through the heap, used to state the claims.            *)
(***************************************************************************)
\* The Entry objects of state s, in list order.
EntriesOf(h, s) == [i \in 1..Len(s.entries) |-> h[s.entries[i]]]

\* The entries of s that are not word-fixed, and those that are.
EmptySet(h, s) == {i \in 1..Len(s.entries) : ~h[s.entries[i]].word_fixed}
FixedSet(h, s) == {i \in 1..Len(s.entries) : h[s.entries[i]].word_fixed}

\* Everything that can be observed of s: its own fields and those of the
\* objects they refer to.
StateView(h, s) ==
    [entries |-> EntriesOf(h, s),
     empty_entries |-> [i \in 1..Len(s.empty_entries) |-> h[s.empty_entries[i]]],
     filled_entries |-> [i \in 1..Len(s.filled_entries) |-> h[s.filled_entries[i]]],
     words_already_used |-> s.words_already_used,
     next_entry_to_be_filled |->
         IF s.next_entry_to_be_filled = None THEN <<>>
         ELSE <<h[s.next_entry_to_be_filled]>>]

\* A take_action call has returned the current state.
Stepped == prev # <<>>

(***************************************************************************)
(* C1.  In every state reached by valid take_action calls no two           *)
(* word-fixed entries hold the same word.                                  *)
(***************************************************************************)
C1_NoWordReused ==
    \A i, j \in FixedSet(heap, state) :
        i # j => Word(heap[state.entries[i]]) # Word(heap[state.entries[j]])

(***************************************************************************)
(* C2.  For every cell shared by entries A (its k-th cell) and B (its p-th *)
(* cell): once A is word-fixed, B.pattern[p] equals A.pattern[k].          *)
(***************************************************************************)
C2_CrossingLettersAgree ==
    LET es == EntriesOf(heap, state)
    IN  \A a, b \in 1..Len(es) :
        \A k \in 1..es[a].length : \A p \in 1..es[b].length :
            (a # b /\ es[a].coordinates[k] = es[b].coordinates[p] /\ es[a].word_fixed)
                => es[b].pattern[p] = es[a].pattern[k]

(***************************************************************************)
(* C3.  After any sequence of valid take_action calls, for every entry e   *)
(* the set of words in e.possible_words is exactly the set of the initial  *)
(* words of e.length that agree with every fixed slot of e.pattern and are *)
(* not in words_already_used.                                              *)
(***************************************************************************)
Candidates(e, used) ==
    {w \in Range(words_by_length[e.length]) :
        /\ \A i \in 1..e.length : e.pattern[i] # EMPTY_SYMBOL => w[i] = e.pattern[i]
        /\ w \notin Range(used)}

C3_CandidateSetConsistency ==
    Stepped =>
        \A i \in 1..Len(state.entries) :
            LET e == heap[state.entries[i]]
            IN  Range(e.possible_words) = Candidates(e, state.words_already_used)

\* The same for the entries that are still empty only.
C3_EmptyEntriesConsistent ==
    Stepped =>
        \A i \in EmptySet(heap, state) :
            LET e == heap[state.entries[i]]
            IN  Range(e.possible_words) = Candidates(e, state.words_already_used)

(***************************************************************************)
(* C4.  take_action never mutates the state it is called on: no Entry      *)
(* object that existed before the call is changed by it, so the state the  *)
(* call was made on (and every state built earlier, such as those held by  *)
(* tree nodes) reads the same before and after.                            *)
(***************************************************************************)
C4_TakeActionDoesNotMutate ==
    [][/\ \A id \in 1..Len(heap) : heap'[id] = heap[id]
       /\ StateView(heap', state) = StateView(heap, state)]_vars

\* A call that rewrote the pattern and candidates of a crossing entry.
C4_Witness ==
    /\ Stepped
    /\ \E i \in 1..Len(state.entries) :
          /\ state.entries[i] # prev[1].entries[i]
          /\ ~heap[state.entries[i]].word_fixed
          /\ heap[state.entries[i]].pattern # heap[prev[1].entries[i]].pattern
          /\ heap[state.entries[i]].possible_words # heap[prev[1].entries[i]].possible_words

(***************************************************************************)
(* C5.  next_entry_to_be_filled is None iff no entry is empty; otherwise   *)
(* it is the empty entry with the fewest possible words, and among those   *)
(* tied for the minimum the one with the lowest index.                     *)
(***************************************************************************)
C5_MostConstrainedEntry ==
    LET empty == EmptySet(heap, state)
    IN  /\ (state.next_entry_to_be_filled = None) <=> (empty = {})
        /\ state.next_entry_to_be_filled # None =>
              LET n == heap[state.next_entry_to_be_filled]
              IN  /\ \E i \in empty : state.entries[i] = state.next_entry_to_be_filled
                  /\ \A i \in empty :
                        LET e == heap[state.entries[i]]
                        IN  \/ Len(n.possible_words) < Len(e.possible_words)
                            \/ /\ Len(n.possible_words) = Len(e.possible_words)
                               /\ n.index <= e.index

\* After a call, the next entry is tied with an entry of a higher index and
\* an entry of a lower index has more candidates.
C5_Witness ==
    /\ Stepped
    /\ state.next_entry_to_be_filled # None
    /\ LET n == heap[state.next_entry_to_be_filled]
       IN  /\ \E i \in EmptySet(heap, state) :
                 /\ heap[state.entries[i]].index > n.index
                 /\ Len(heap[state.entries[i]].possible_words) = Len(n.possible_words)
           /\ \E i \in EmptySet(heap, state) :
                 /\ heap[state.entries[i]].index < n.index
                 /\ Len(heap[state.entries[i]].possible_words) > Len(n.possible_words)

(***************************************************************************)
(* C6.  is_terminal() is true exactly when no entry is empty or some empty *)
(* entry has no possible word; a non-terminal state has at least one       *)
(* possible action.                                                        *)
(***************************************************************************)
C6_TerminalIffSuccessOrDeadEntry ==
    LET empty == EmptySet(heap, state)
    IN  /\ is_terminal(heap, state) <=>
              \/ empty = {}
              \/ \E i \in empty : Len(heap[state.entries[i]].possible_words) = 0
        /\ ~is_terminal(heap, state) => Len(get_possible_actions(heap, state)) > 0

\* A failure terminal in which the empty entry of lowest index still has
\* candidates (the dead entry is another one).
C6_Witness ==
    /\ Stepped
    /\ is_terminal(heap, state)
    /\ EmptySet(heap, state) # {}
    /\ Len(heap[state.empty_entries[1]].possible_words) > 0

(***************************************************************************)
(* C7.  get_reward() is the number of word-fixed entries, lies between 0   *)
(* and the number of entries, and equals the number of entries iff the     *)
(* state is a success terminal.                                            *)
(***************************************************************************)
C7_RewardCountsFixedEntries ==
    /\ get_reward(heap, state) = Cardinality(FixedSet(heap, state))
    /\ get_reward(heap, state) \in 0..Len(state.entries)
    /\ (get_reward(heap, state) = Len(state.entries))
          <=> (state.next_entry_to_be_filled = None)

\* A success terminal of a grid with crossing entries, reached by calls.
C7_Witness ==
    /\ Stepped
    /\ Len(state.entries) >= 2
    /\ \E i \in 1..Len(state.entries) : Len(heap[state.entries[i]].dependencies) > 0
    /\ state.next_entry_to_be_filled = None

\* A state in which an entry that is not word-fixed has all its letters
\* fixed by the entries crossing it.
LettersFixedButEmpty ==
    \E i \in EmptySet(heap, state) :
        heap[state.entries[i]].num_letters_fixed = heap[state.entries[i]].length

(***************************************************************************)
(* Views of the tree, used to state the claims about the driver.           *)
(***************************************************************************)
\* The driver has returned.
Done == pc = "done"

\* The score of a child at the commit step: its stored reward, or 0 when
\* its num_options is 0.
CommitScore(child) ==
    IF num_options(heap, nodes[child].state) = 0 THEN 0 ELSE nodes[child].reward

\* Child c beats child d: a strictly greater score, or the same score and a
\* greater num_options (children without a num_options value are tied).
Beats(c, d) ==
    \/ CommitScore(c) > CommitScore(d)
    \/ /\ CommitScore(c) = CommitScore(d)
       /\ num_options(heap, nodes[c].state) # None
       /\ num_options(heap, nodes[d].state) # None
       /\ num_options(heap, nodes[c].state) > num_options(heap, nodes[d].state)

\* The i-th child of the parent is the best one: no child beats it and it
\* beats every child inserted before it.
IsBestChild(parent, i) ==
    LET cs == nodes[parent].children
    IN  /\ \A j \in 1..Len(cs) : ~Beats(cs[j], cs[i])
        /\ \A j \in 1..(i - 1) : Beats(cs[i], cs[j])

\* search has run its rounds and is about to pick the child to commit.
AtCommit == pc = "search" /\ rounds_done = iteration_limit

(***************************************************************************)
(* C8.  fill_current_layout returns solved = true iff the state of the     *)
(* last committed node has no empty entry, and solved = false iff that     *)
(* state still has a next entry, which then has no possible word.          *)
(***************************************************************************)
C8_SolvedIffNoEmptyEntry ==
    Done =>
        LET final_state == nodes[current_node].state
        IN  /\ solved <=> (EmptySet(heap, final_state) = {})
            /\ ~solved <=>
                  /\ final_state.next_entry_to_be_filled # None
                  /\ Len(heap[final_state.next_entry_to_be_filled].possible_words) = 0

\* The driver returned unsolved after it had committed words.
C8_Witness ==
    /\ Done
    /\ ~solved
    /\ Len(history_statistics) >= 2

\* The driver returned solved after it had committed words.
C8_WitnessSolved ==
    /\ Done
    /\ solved
    /\ Len(history_statistics) >= 2

(***************************************************************************)
(* C9.  For every grid, word list and iteration_limit >= 1 the driver loop *)
(* stops without raising an error: every search on a non-terminal node     *)
(* returns a child whose state has exactly one more word-fixed entry, so   *)
(* at most num_entries searches are performed.                             *)
(***************************************************************************)
C9_DriverStopsWithoutError ==
    iteration_limit >= 1 =>
        /\ pc # "error"
        /\ Len(history_statistics) <= num_entries(layout)
        /\ (pc = "loop" /\ current_node # None /\ nodes[current_node].parent # None) =>
              Cardinality(FixedSet(heap, nodes[current_node].state))
                  = Cardinality(FixedSet(heap, nodes[nodes[current_node].parent].state)) + 1

\* The same without the demand that no error is raised.
C9_OneMoreEntryPerSearch ==
    iteration_limit >= 1 =>
        /\ Len(history_statistics) <= num_entries(layout)
        /\ (pc = "loop" /\ current_node # None /\ nodes[current_node].parent # None) =>
              Cardinality(FixedSet(heap, nodes[current_node].state))
                  = Cardinality(FixedSet(heap, nodes[nodes[current_node].parent].state)) + 1

(***************************************************************************)
(* C10.  For every parent with at least one child the commit step          *)
(* (get_best_child with exploration 0) returns a child of that parent: the *)
(* one with the strictly greatest score; among children tied on score the  *)
(* one with the greater num_options; among children still tied the first   *)
(* in insertion order.  This includes parents whose children are           *)
(* success-terminal states, which have no num_options value.               *)
(***************************************************************************)
C10_CommitReturnsBestChild ==
    (AtCommit /\ Len(nodes[root].children) >= 1) =>
        LET best == get_best_child(nodes, heap, root, 0)
        IN  /\ best.raised = ""
            /\ \E i \in 1..Len(nodes[root].children) :
                  /\ nodes[root].children[i] = best.node
                  /\ IsBestChild(root, i)

\* The same for the parents whose children all have a num_options value.
C10_BestChildWhenOptionsKnown ==
    (/\ AtCommit
     /\ Len(nodes[root].children) >= 1
     /\ \A i \in 1..Len(nodes[root].children) :
           num_options(heap, nodes[nodes[root].children[i]].state) # None) =>
        LET best == get_best_child(nodes, heap, root, 0)
        IN  /\ best.raised = ""
            /\ \E i \in 1..Len(nodes[root].children) :
                  /\ nodes[root].children[i] = best.node
                  /\ IsBestChild(root, i)

(***************************************************************************)
(* Views of the tree below the current root.                               *)
(***************************************************************************)
\* The nodes reachable from node r through children links, r included.
RECURSIVE Descendants(_, _)
Descendants(ns, r) ==
    {r} \cup UNION {Descendants(ns, ns[r].children[i]) : i \in 1..Len(ns[r].children)}

\* The tree the engine works on while a search is running.
Tree == IF pc = "search" THEN Descendants(nodes, root) ELSE {}

\* The parents on which select_node calls get_best_child during a round.
SelectParents == {p \in Tree : ~nodes[p].is_terminal /\ nodes[p].is_fully_expanded}

\* Child c is a dead end.
DeadEnd(c) == num_options(heap, nodes[c].state) = 0

\* get_best_child on the parent does not return a dead end while the parent
\* has a child that is none.
AvoidsDeadEnd(parent, exploration_value) ==
    LET best == get_best_child(nodes, heap, parent, exploration_value)
    IN  (best.raised = "" /\ best.node # None /\ DeadEnd(best.node)) =>
            \A c \in Range(nodes[parent].children) : DeadEnd(c)

(***************************************************************************)
(* C11.  Whenever get_best_child is called during a search or a commit, it *)
(* returns a dead-end child (num_options = 0) only if every child of that  *)
(* parent is a dead end: a child with an option, or a success-terminal     *)
(* child, beats a dead-end child.                                          *)
(***************************************************************************)
C11_DeadEndOnlyIfAllDead ==
    /\ \A p \in SelectParents : AvoidsDeadEnd(p, num_entries(layout))
    /\ AtCommit => AvoidsDeadEnd(root, 0)

\* A fully expanded parent has a dead-end child inserted before a child with
\* options, and the selection step returns a child with options.
C11_Witness ==
    \E p \in SelectParents :
        LET cs == nodes[p].children
            best == get_best_child(nodes, heap, p, num_entries(layout))
        IN  /\ Len(cs) >= 2
            /\ DeadEnd(cs[1])
            /\ \E i \in 2..Len(cs) : ~DeadEnd(cs[i])
            /\ best.raised = ""
            /\ ~DeadEnd(best.node)

\* The parent chain of node n: n, its parent, and so on up to a node
\* without parent.
RECURSIVE ParentChain(_, _)
ParentChain(ns, n) ==
    IF n = None THEN {} ELSE {n} \cup ParentChain(ns, ns[n].parent)

\* A step that is one completed round of search.
RoundStep == pc = "search" /\ pc' = "search" /\ rounds_done' = rounds_done + 1

(***************************************************************************)
(* C12.  One backpropagation from node n with received reward r changes    *)
(* exactly the nodes on the parent chain from n up to the current root:    *)
(* each gets num_visits increased by 1 and reward set to max(old reward,   *)
(* r), so each then has reward >= r; every node off the chain keeps its    *)
(* num_visits and reward.  (A node created in the round starts from 0.)    *)
(***************************************************************************)
C12_BackpropagateLiftsChain ==
    [][RoundStep =>
        \E n \in 1..Len(nodes') : \E r \in 0..num_entries(layout) :
            LET chain == ParentChain(nodes', n)
            IN  /\ root \in chain
                /\ \A id \in 1..Len(nodes') :
                      LET old_visits == IF id <= Len(nodes) THEN nodes[id].num_visits ELSE 0
                          old_reward == IF id <= Len(nodes) THEN nodes[id].reward ELSE 0
                      IN  IF id \in chain
                          THEN /\ nodes'[id].num_visits = old_visits + 1
                               /\ nodes'[id].reward = Max(old_reward, r)
                               /\ nodes'[id].reward >= r
                          ELSE /\ nodes'[id].num_visits = old_visits
                               /\ nodes'[id].reward = old_reward]_vars

\* Rounds have run from a root with two children, one of which holds a
\* smaller reward than the root: the last chain left a node aside and the
\* root kept the greater reward.
C12_Witness ==
    /\ pc = "search"
    /\ rounds_done >= 3
    /\ Len(nodes[root].children) >= 2
    /\ \E c \in Range(nodes[root].children) :
          /\ nodes[c].reward < nodes[root].reward
          /\ nodes[c].num_visits < nodes[root].num_visits
    /\ \E c \in Range(nodes[root].children) : nodes[c].num_visits >= 2

(***************************************************************************)
(* C13.  After any number of rounds, for every node of the tree: the       *)
(* actions of its children are the first |children| words of its state's   *)
(* get_possible_actions() in order, each child's state equals the parent's *)
(* state after take_action of the child's action, and is_fully_expanded is *)
(* true iff the node is terminal or has as many children as possible       *)
(* actions.                                                                *)
(***************************************************************************)
C13_ChildrenArePrefixOfActions ==
    \A p \in 1..Len(nodes) :
        LET cs == nodes[p].children
            terminal == is_terminal(heap, nodes[p].state)
        IN  /\ nodes[p].is_terminal = terminal
            /\ terminal => (Len(cs) = 0 /\ nodes[p].is_fully_expanded)
            /\ ~terminal =>
                  LET actions == get_possible_actions(heap, nodes[p].state)
                  IN  /\ Len(cs) <= Len(actions)
                      /\ \A i \in 1..Len(cs) :
                            LET next == take_action(heap, nodes[p].state, actions[i])
                            IN  /\ nodes[cs[i]].action_leading_here = actions[i]
                                /\ StateView(heap, nodes[cs[i]].state)
                                       = StateView(next.heap, next.state)
                      /\ nodes[p].is_fully_expanded <=> (Len(cs) = Len(actions))

\* A node with three possible actions has two children, one of which has a
\* child of its own.
C13_Witness ==
    \E p \in 1..Len(nodes) :
        /\ ~is_terminal(heap, nodes[p].state)
        /\ Len(get_possible_actions(heap, nodes[p].state)) = 3
        /\ Len(nodes[p].children) = 2
        /\ ~nodes[p].is_fully_expanded
        /\ \E c \in Range(nodes[p].children) : Len(nodes[c].children) >= 1

\* search has returned a committed child to the driver.
Committed == pc \in {"loop", "done"} /\ Len(history_statistics) >= 1

\* The nodes outside the tree below node r: former roots and their other
\* children.
Outside(ns, r) == (1..Len(ns)) \ Descendants(ns, r)

(***************************************************************************)
(* C14.  After a move is committed, the committed child is the tree root   *)
(* with no parent link: from the moment search returns the committed       *)
(* child, the old root and the committed child's siblings are no longer    *)
(* reachable from it (and no later round changes their num_visits or       *)
(* reward).  As stated, for the moment search returns:                     *)
(***************************************************************************)
C14_DetachedWhenSearchReturns ==
    Committed => nodes[current_node].parent = None

(***************************************************************************)
(* C14, amended.  The committed child keeps the link to its parent, the    *)
(* old root, when search returns (the driver reads it).  The link is       *)
(* cleared when the next search starts on the committed child: from then   *)
(* on the committed child is the root without parent, every parent chain   *)
(* inside its tree stays inside it, and no round changes num_visits or     *)
(* reward of a node outside the tree (the old roots and their other        *)
(* children).                                                              *)
(***************************************************************************)
C14_DetachedWhenNextSearchStarts ==
    [][/\ Committed =>
              /\ nodes[current_node].parent # None
              /\ current_node \in Range(nodes[nodes[current_node].parent].children)
       /\ pc = "search" =>
              /\ root = current_node
              /\ nodes[root].parent = None
              /\ \A n \in Descendants(nodes, root) :
                    ParentChain(nodes, n) \subseteq Descendants(nodes, root)
       /\ (pc = "search" /\ pc' = "search") =>
              \A id \in Outside(nodes, root) :
                  /\ nodes'[id].num_visits = nodes[id].num_visits
                  /\ nodes'[id].reward = nodes[id].reward]_vars

\* A round has run in a search on a committed child that has a sibling.
C14_Witness ==
    /\ pc = "search"
    /\ Len(history_statistics) >= 1
    /\ rounds_done >= 1
    /\ \E q \in Outside(nodes, root) :
          /\ root \in Range(nodes[q].children)
          /\ Len(nodes[q].children) >= 2

(***************************************************************************)
(* Claims about the entries of a state and of the analysed grid (the walk).*)
(***************************************************************************)
\* The number of slots of a pattern that hold a letter.
CountNonEmpty(pattern) == Cardinality({i \in 1..Len(pattern) : pattern[i] # EMPTY_SYMBOL})

(***************************************************************************)
(* C16.  In every reachable state and for every entry, word_fixed is true  *)
(* iff num_letters_fixed = length; in particular an entry all of whose     *)
(* letters have been fixed by filling the entries that cross it is         *)
(* word-fixed and counted among filled_entries.                            *)
(***************************************************************************)
C16_WordFixedIffAllLettersFixed ==
    \A i \in 1..Len(state.entries) :
        LET e == heap[state.entries[i]]
        IN  /\ e.word_fixed <=> (e.num_letters_fixed = e.length)
            /\ e.num_letters_fixed = e.length =>
                  state.entries[i] \in Range(state.filled_entries)

\* One direction of it: a word-fixed entry has all its letters fixed.
C16_WordFixedHasAllLetters ==
    \A i \in 1..Len(state.entries) :
        LET e == heap[state.entries[i]]
        IN  e.word_fixed => (e.num_letters_fixed = e.length /\ CountNonEmpty(e.pattern) = e.length)

(***************************************************************************)
(* C17.  In every reachable state, including states reached from a grid    *)
(* with pre-filled letters, every entry's num_letters_fixed equals the     *)
(* number of slots of its pattern that hold a letter.                      *)
(***************************************************************************)
C17_LettersFixedCountsPattern ==
    \A i \in 1..Len(state.entries) :
        LET e == heap[state.entries[i]]
        IN  e.num_letters_fixed = CountNonEmpty(e.pattern)

\* The same for the grids without pre-filled letters.
C17_CountsPatternWithoutPrefilled ==
    (\A c \in DOMAIN layout : layout[c] \in {EMPTY_SYMBOL, BLOCK_SYMBOL}) =>
        \A i \in 1..Len(state.entries) :
            LET e == heap[state.entries[i]]
            IN  e.num_letters_fixed = CountNonEmpty(e.pattern)

(***************************************************************************)
(* C18.  For every analysed grid and every entry A, A.dependencies is      *)
(* parallel to A.coordinates: the pair (i, p) at list position k of        *)
(* A.dependencies refers to the cell A.coordinates[k], that is             *)
(* entries[i].coordinates[p] = A.coordinates[k]; also for grids in which   *)
(* some cell of A belongs to no other entry.                               *)
(***************************************************************************)
C18_DependenciesParallelToCoordinates ==
    LET es == EntriesOf(heap, state)
    IN  \A a \in 1..Len(es) : \A k \in 1..Len(es[a].dependencies) :
            LET dep == es[a].dependencies[k]
            IN  /\ k <= Len(es[a].coordinates)
                /\ es[dep[1] + 1].coordinates[dep[2] + 1] = es[a].coordinates[k]

\* The same for the grids in which every cell of every entry is crossed.
C18_ParallelWhenEveryCellCrossed ==
    LET es == EntriesOf(heap, state)
    IN  (\A a \in 1..Len(es) : Len(es[a].dependencies) = Len(es[a].coordinates)) =>
        \A a \in 1..Len(es) : \A k \in 1..Len(es[a].dependencies) :
            LET dep == es[a].dependencies[k]
            IN  es[dep[1] + 1].coordinates[dep[2] + 1] = es[a].coordinates[k]

(***************************************************************************)
(* C19.  For every analysed grid the dependency relation is symmetric:     *)
(* entry A records a dependency on (B, p) for its cell at position k iff   *)
(* entry B records a dependency on (A, k) for its cell at position p, and  *)
(* A.coordinates[k] = B.coordinates[p]; no entry depends on itself.        *)
(***************************************************************************)
C19_DependencySymmetric ==
    LET es == EntriesOf(heap, state)
        Dep(a) == Range(es[a].dependencies)
    IN  /\ \A a \in 1..Len(es) : \A dep \in Dep(a) :
              /\ dep[1] + 1 # a
              /\ \E k \in 1..es[a].length :
                    /\ es[a].coordinates[k] = es[dep[1] + 1].coordinates[dep[2] + 1]
                    /\ <<a - 1, k - 1>> \in Dep(dep[1] + 1)
        /\ \A a, b \in 1..Len(es) : \A k \in 1..es[a].length : \A p \in 1..es[b].length :
              (a # b /\ es[a].coordinates[k] = es[b].coordinates[p]) =>
                  (<<b - 1, p - 1>> \in Dep(a) /\ <<a - 1, k - 1>> \in Dep(b))

\* A grid with an entry that crosses two entries and has an uncrossed cell.
C19_Witness ==
    LET es == EntriesOf(heap, state)
    IN  \E a \in 1..Len(es) :
            /\ Len(es[a].dependencies) = 2
            /\ es[a].dependencies[1][1] # es[a].dependencies[2][1]
            /\ es[a].length = 3

(***************************************************************************)
(* C20.  For every grid, every non-block cell belongs to at most one       *)
(* across entry and at most one down entry; a cell whose horizontal        *)
(* (vertical) run of non-block cells is shorter than MIN_WORD_LENGTH       *)
(* belongs to no across (down) entry, and no block cell belongs to any     *)
(* entry.                                                                  *)
(***************************************************************************)
\* The entry is an across entry (its cells lie in one row).
IsAcross(e) == \A k \in 1..Len(e.coordinates) : e.coordinates[k][1] = e.coordinates[1][1]

\* The cells of the run of non-block cells through cell c along an axis
\* (axis 2: horizontal, the column varies; axis 1: vertical).
RunOf(c, axis) ==
    {d \in DOMAIN layout :
        /\ d[3 - axis] = c[3 - axis]
        /\ \A x \in DOMAIN layout :
              (/\ x[3 - axis] = c[3 - axis]
               /\ x[axis] >= Min(c[axis], d[axis])
               /\ x[axis] <= Max(c[axis], d[axis])) => layout[x] # BLOCK_SYMBOL}

C20_AxisDecomposition ==
    LET es == EntriesOf(heap, state)
        Across(c) == {a \in 1..Len(es) : IsAcross(es[a]) /\ c \in Range(es[a].coordinates)}
        Down(c) == {a \in 1..Len(es) : ~IsAcross(es[a]) /\ c \in Range(es[a].coordinates)}
    IN  \A c \in DOMAIN layout :
            /\ Cardinality(Across(c)) <= 1
            /\ Cardinality(Down(c)) <= 1
            /\ Cardinality(RunOf(c, 2)) < MIN_WORD_LENGTH => Across(c) = {}
            /\ Cardinality(RunOf(c, 1)) < MIN_WORD_LENGTH => Down(c) = {}
            /\ layout[c] = BLOCK_SYMBOL => (Across(c) = {} /\ Down(c) = {})

\* A grid with a cell in an across and a down entry, a cell of a short
\* horizontal run that is in a down entry only, and a block.
C20_Witness ==
    LET es == EntriesOf(heap, state)
        Across(c) == {a \in 1..Len(es) : IsAcross(es[a]) /\ c \in Range(es[a].coordinates)}
        Down(c) == {a \in 1..Len(es) : ~IsAcross(es[a]) /\ c \in Range(es[a].coordinates)}
    IN  /\ \E c \in DOMAIN layout : Across(c) # {} /\ Down(c) # {}
        /\ \E c \in DOMAIN layout :
              /\ layout[c] # BLOCK_SYMBOL
              /\ Cardinality(RunOf(c, 2)) = MIN_WORD_LENGTH - 1
              /\ Across(c) = {}
              /\ Down(c) # {}
        /\ \E c \in DOMAIN layout : layout[c] = BLOCK_SYMBOL

LongRuns(axis) ==
    {RunOf(c, axis) : c \in {d \in DOMAIN layout :
        layout[d] # BLOCK_SYMBOL /\ Cardinality(RunOf(d, axis)) >= MIN_WORD_LENGTH}}

AllBlocks == \A c \in DOMAIN layout : layout[c] = BLOCK_SYMBOL

C22_AllBlocksSolvedAtOnce ==
    (AllBlocks /\ iteration_limit >= 1) =>
        /\ num_entries(layout) = 0
        /\ pc \in {"start", "loop", "done"}
        /\ Len(history_statistics) = 0
        /\ root = None
        /\ pc \in {"loop", "done"} =>
              LET s == nodes[current_node].state
              IN  /\ Len(nodes) = 1
                  /\ Len(s.entries) = 0
                  /\ is_terminal(heap, s)
                  /\ s.next_entry_to_be_filled = None
                  /\ get_reward(heap, s) = 0
        /\ pc = "done" => solved

\* The driver has returned for the grid of blocks.
C22_Witness == AllBlocks /\ pc = "done" /\ solved /\ iteration_limit >= 1

C23_WitnessRejected == iteration_limit < 1 /\ pc = "error" /\ raised = "ValueError"

(***************************************************************************)
(* C24.  For every raw word list and set word_lengths, when the cap        *)
(* max_num_words is not exceeded, the words the Word Index offers for      *)
(* length L are exactly the distinct results of upper-casing a string      *)
(* item, stripping every character outside A-Z, and keeping it iff the     *)
(* resulting length is L (with L in word_lengths): the length filter       *)
(* applies to the normalised word, after stripping.                        *)
(***************************************************************************)
\* The normalised words of the string items of the call.
Normalised == {map_func(x) : x \in {y \in Range(call.raw_words) : y.isstr}}

\* The normalised words of the string items whose raw length is a word length.
NormalisedOfRawLength ==
    {map_func(x) : x \in {y \in Range(call.raw_words) :
                            y.isstr /\ Len(y.text) \in call.word_lengths}}

WordHandlerReturned == call.fn = "WordHandler" /\ result # <<>>

CapNotExceeded == Cardinality(Normalised) <= call.max_num_words

C24_LengthFilterAfterStripping ==
    (WordHandlerReturned /\ CapNotExceeded) =>
        /\ DOMAIN result[1] = call.word_lengths
        /\ \A L \in call.word_lengths :
              /\ Range(result[1][L]) = {w \in Normalised : Len(w) = L}
              /\ Len(result[1][L]) = Cardinality(Range(result[1][L]))

\* What the index does offer: the length test is passed by the raw item and
\* the word is filed under its length after stripping.
C24_LengthFilterOnRawItem ==
    (WordHandlerReturned /\ CapNotExceeded) =>
        /\ DOMAIN result[1] = call.word_lengths
        /\ \A L \in call.word_lengths :
              /\ Range(result[1][L]) = {w \in NormalisedOfRawLength : Len(w) = L}
              /\ Len(result[1][L]) = Cardinality(Range(result[1][L]))

\* An item that has a word length only after stripping was offered by no list.
C24_Witness ==
    /\ WordHandlerReturned
    /\ CapNotExceeded
    /\ \E x \in Range(call.raw_words) :
          /\ x.isstr
          /\ Len(x.text) \notin call.word_lengths
          /\ Len(map_func(x)) \in call.word_lengths
          /\ map_func(x) \notin Range(result[1][Len(map_func(x))])

(***************************************************************************)
(* C25.  For every (row, col, orientation, length), get_coordinates        *)
(* returns exactly `length` cells: (row, col + k) for k = 0..length-1 when *)
(* the orientation is across, and (row + k, col) for k = 0..length-1 when  *)
(* it is down, in that order.                                              *)
(***************************************************************************)
C25_CoordinatesAreConsecutiveCells ==
    (call.fn = "get_coordinates" /\ result # <<>>) =>
        /\ DOMAIN result[1] = 1..call.length
        /\ \A k \in 0..(call.length - 1) :
              /\ call.orientation = ACROSS => result[1][k + 1] = <<call.row, call.col + k>>
              /\ call.orientation = DOWN => result[1][k + 1] = <<call.row + k, call.col>>

\* Calls with several cells have returned, in both orientations.
C25_Witness ==
    /\ call.fn = "get_coordinates"
    /\ result # <<>>
    /\ call.length >= 2
    /\ call.orientation = DOWN
    /\ call.row > 0

C25_WitnessAcross ==
    /\ call.fn = "get_coordinates"
    /\ result # <<>>
    /\ call.length >= 2
    /\ call.orientation = ACROSS

(***************************************************************************)
(* C26.  For every (row, col), get_slice returns for orientation across    *)
(* the pair (rows row..row+1, columns col..end) and for orientation down   *)
(* the pair (rows row..end, columns col..col+1), i.e. the part of the      *)
(* single row or column that starts at (row, col) and runs to the grid     *)
(* edge.                                                                   *)
(***************************************************************************)
\* The integers from a to b - 1 in ascending order.
Interval(a, b) == [i \in 1..Max(b - a, 0) |-> a + (i - 1)]

C26_SliceRunsToGridEdge ==
    (call.fn = "get_slice" /\ result # <<>>) =>
        LET rows == SliceIndices(result[1][1], NumRows)
            cols == SliceIndices(result[1][2], NumCols)
            inside == call.row < NumRows /\ call.col < NumCols
        IN  /\ call.orientation = ACROSS =>
                  /\ result[1] = <<Slice(call.row, call.row + 1), Slice(call.col, None)>>
                  /\ inside => rows = <<call.row>> /\ cols = Interval(call.col, NumCols)
            /\ call.orientation = DOWN =>
                  /\ result[1] = <<Slice(call.row, None), Slice(call.col, call.col + 1)>>
                  /\ inside => rows = Interval(call.row, NumRows) /\ cols = <<call.col>>

\* A call for a cell inside the grid and not in its last row has returned.
C26_Witness ==
    /\ call.fn = "get_slice"
    /\ result # <<>>
    /\ call.orientation = DOWN
    /\ call.row > 0
    /\ call.row < NumRows - 1
    /\ call.col < NumCols

C26_WitnessAcross ==
    /\ call.fn = "get_slice"
    /\ result # <<>>
    /\ call.orientation = ACROSS
    /\ call.col < NumCols - 1
    /\ call.row < NumRows

(***************************************************************************)
(* C27.  Along every parent-to-child edge of the MCTS tree, and along      *)
(* every step of a rollout, the sum of num_letters_fixed over all entries  *)
(* of the state does not decrease.                                         *)
(***************************************************************************)
RECURSIVE SumLettersFixedFrom(_, _, _)
SumLettersFixedFrom(h, s, i) ==
    IF i > Len(s.entries) THEN 0
    ELSE h[s.entries[i]].num_letters_fixed + SumLettersFixedFrom(h, s, i + 1)

\* The sum of num_letters_fixed over the entries of state s.
SumLettersFixed(h, s) == SumLettersFixedFrom(h, s, 1)

NoPrefilledLetter == \A c \in DOMAIN layout : layout[c] \in {EMPTY_SYMBOL, BLOCK_SYMBOL}

\* Every step of take_action from any reachable state, as a rollout makes it.
C27_LettersFixedSumNeverDecreases ==
    Stepped => SumLettersFixed(heap, state) >= SumLettersFixed(heap, prev[1])

\* The same for the grids without pre-filled letters.
C27_SumNeverDecreasesWithoutPrefilled ==
    (Stepped /\ NoPrefilledLetter) =>
        SumLettersFixed(heap, state) >= SumLettersFixed(heap, prev[1])

\* The edges of the trees the driver builds (its grids hold no letters).
C27_SumNeverDecreasesAlongTreeEdges ==
    \A n \in 1..Len(nodes) :
        nodes[n].parent # None =>
            SumLettersFixed(heap, nodes[n].state)
                >= SumLettersFixed(heap, nodes[nodes[n].parent].state)

(***************************************************************************)
(* C28.  take_action(a) on state s changes only the next entry E and the   *)
(* not-yet-word-fixed entries that share a cell with E: every other entry, *)
(* and every already word-fixed entry crossing E, appears in the new state *)
(* with the same pattern, possible_words, num_letters_fixed and            *)
(* word_fixed as in s; E itself gets pattern = letters of a,               *)
(* possible_words = [a], num_letters_fixed = length and word_fixed = true, *)
(* so a word-fixed entry always has possible_words equal to the            *)
(* one-element list holding its word.                                      *)
(***************************************************************************)
SharesCell(e, f) == Range(e.coordinates) \cap Range(f.coordinates) # {}

C28_TakeActionFrame ==
    /\ \A i \in 1..Len(state.entries) :
          LET e == heap[state.entries[i]]
          IN  e.word_fixed => e.possible_words = <<Word(e)>>
    /\ Stepped =>
          LET s == prev[1]
              E == heap[s.next_entry_to_be_filled]
          IN  /\ Len(state.entries) = Len(s.entries)
              /\ \A i \in 1..Len(s.entries) :
                    LET old == heap[s.entries[i]]
                        new == heap[state.entries[i]]
                    IN  IF s.entries[i] = s.next_entry_to_be_filled
                        THEN new = [E EXCEPT !.pattern = last_action,
                                             !.possible_words = <<last_action>>,
                                             !.num_letters_fixed = E.length,
                                             !.word_fixed = TRUE]
                        ELSE IF old.word_fixed \/ ~SharesCell(old, E)
                        THEN /\ state.entries[i] = s.entries[i]
                             /\ new = old
                        ELSE /\ new.index = old.index
                             /\ new.length = old.length
                             /\ new.coordinates = old.coordinates
                             /\ new.dependencies = old.dependencies

\* A call that filled an entry with several candidates, crossed by a
\* word-fixed entry and by an empty one, next to an entry it does not cross.
C28_Witness ==
    /\ Stepped
    /\ LET s == prev[1]
           E == heap[s.next_entry_to_be_filled]
       IN  /\ Len(E.possible_words) >= 2
           /\ \E i, j, k \in 1..Len(s.entries) :
                 /\ heap[s.entries[i]].word_fixed
                 /\ SharesCell(heap[s.entries[i]], E)
                 /\ s.entries[i] # s.next_entry_to_be_filled
                 /\ ~heap[s.entries[j]].word_fixed
                 /\ ~SharesCell(heap[s.entries[j]], E)
                 /\ ~heap[s.entries[k]].word_fixed
                 /\ SharesCell(heap[s.entries[k]], E)
                 /\ s.entries[k] # s.next_entry_to_be_filled
                 /\ heap[state.entries[k]] # heap[s.entries[k]]

\* An entry that was word-fixed by the letters of the grid.
C28_WitnessPrefilled ==
    /\ Stepped
    /\ \E i \in 1..Len(state.entries) :
          /\ heap[state.entries[i]].word_fixed
          /\ \A c \in Range(heap[state.entries[i]].coordinates) :
                layout[c] # EMPTY_SYMBOL

(***************************************************************************)
(* C29.  A rollout started from any reachable state terminates after at    *)
(* most as many take_action steps as that state has empty entries, never   *)
(* meets a non-terminal state with an empty action list (the InvalidState  *)
(* error is unreachable), and returns the reward of a terminal state,      *)
(* which is >= the number of word-fixed entries of the start state.        *)
(***************************************************************************)
C29_RolloutTerminatesWithReward ==
    /\ ~is_terminal(heap, state) => Len(get_possible_actions(heap, state)) > 0
    /\ \A outcome \in rollout_policy(heap, state) :
          /\ outcome.raised = ""
          /\ Len(outcome.choices) <= Cardinality(EmptySet(heap, state))
          /\ outcome.reward >= Cardinality(FixedSet(heap, state))
          /\ outcome.reward = Cardinality(FixedSet(heap, state)) + Len(outcome.choices)
          /\ outcome.reward <= Len(state.entries)

\* A state reached by take_action from which one rollout takes two steps and
\* fills the grid and another ends at once in a dead end.
C29_Witness ==
    /\ Stepped
    /\ \E o1, o2 \in rollout_policy(heap, state) :
          /\ Len(o1.choices) >= 2
          /\ o1.reward = Len(state.entries)
          /\ Len(o2.choices) = 1
          /\ o2.reward < Len(state.entries)

(***************************************************************************)
(* C30.  In every round, selection starting at the root returns either a   *)
(* child created in this very round (num_visits == 0 and a child of a      *)
(* non-terminal node that was not fully expanded) or a terminal node; it   *)
(* never returns a non-terminal node that already existed, never calls     *)
(* expand on a fully expanded or terminal node, and so never reaches the   *)
(* 'already fully expanded' RuntimeError of expand.                        *)
(***************************************************************************)
\* The search is about to execute a round.
RoundDue == pc = "search" /\ rounds_done < iteration_limit

\* What select_node(self.root) does in that round.
Selection == select_node(nodes, heap, root, num_entries(layout))

\* The selected node was created by expand in this round.
SelectedNewChild(sel) ==
    /\ Len(sel.nodes) = Len(nodes) + 1
    /\ sel.node = Len(sel.nodes)
    /\ sel.nodes[sel.node].num_visits = 0
    /\ LET parent == sel.nodes[sel.node].parent
       IN  /\ parent \in Descendants(nodes, root)
           /\ ~nodes[parent].is_terminal
           /\ ~is_terminal(heap, nodes[parent].state)
           /\ ~nodes[parent].is_fully_expanded
           /\ Len(nodes[parent].children) < Len(get_possible_actions(heap, nodes[parent].state))
           /\ sel.nodes[parent].children = Append(nodes[parent].children, sel.node)

\* The selected node is a terminal node of the tree; nothing was created.
SelectedTerminal(sel) ==
    /\ sel.nodes = nodes
    /\ sel.node \in Descendants(nodes, root)
    /\ nodes[sel.node].is_terminal
    /\ is_terminal(heap, nodes[sel.node].state)

\* expand is called on the nodes that are not flagged: none of them is
\* terminal or has all its actions as children.
ExpandableWhenNotFlagged ==
    \A n \in 1..Len(nodes) :
        ~nodes[n].is_fully_expanded =>
            /\ ~is_terminal(heap, nodes[n].state)
            /\ Len(nodes[n].children) < Len(get_possible_actions(heap, nodes[n].state))

C30_SelectionReturnsNewChildOrTerminal ==
    RoundDue =>
        /\ Selection.raised = ""
        /\ SelectedNewChild(Selection) \/ SelectedTerminal(Selection)
        /\ ExpandableWhenNotFlagged

\* The same for the rounds in which select_node returns: it never raises the
\* RuntimeError of expand, and a node it returns is new or terminal.
C30_NewChildOrTerminalWhenReturned ==
    RoundDue =>
        /\ Selection.raised # "RuntimeError"
        /\ Selection.raised = "" =>
              SelectedNewChild(Selection) \/ SelectedTerminal(Selection)
        /\ ExpandableWhenNotFlagged

\* A round whose selection walks down from a fully expanded root and expands
\* a node below it, and a round whose selection ends at a terminal node.
C30_Witness ==
    /\ RoundDue
    /\ Selection.raised = ""
    /\ SelectedNewChild(Selection)
    /\ Selection.nodes[Selection.node].parent # root

C30_WitnessTerminal ==
    /\ RoundDue
    /\ Selection.raised = ""
    /\ SelectedTerminal(Selection)
    /\ Selection.node # root

(***************************************************************************)
(* C31.  In the initial state, every entry with no pre-filled letter has   *)
(* as possible_words all words of its length from the Word Index; an entry *)
(* with some pre-filled letters has exactly the words of its length that   *)
(* agree with those letters; an entry whose letters are all pre-filled is  *)
(* word-fixed with its own word as its only candidate, and that word is    *)
(* then excluded from the possible_words of every other entry.             *)
(***************************************************************************)
\* The letters the grid holds in the cells of entry e.
GridPattern(e) == [k \in 1..Len(e.coordinates) |-> layout[e.coordinates[k]]]

\* Word w agrees with the letters of pattern.
Agrees(w, pattern) ==
    /\ Len(w) = Len(pattern)
    /\ \A k \in 1..Len(pattern) : pattern[k] # EMPTY_SYMBOL => w[k] = pattern[k]

\* The candidates of the entries of the initial state, but for the exclusion.
InitialCandidatesMatchPattern ==
    \A i \in 1..Len(state.entries) :
        LET e == heap[state.entries[i]]
            pattern == GridPattern(e)
            Fits(w) == Agrees(w, pattern)
        IN  /\ e.pattern = pattern
            /\ e.num_letters_fixed = CountNonEmpty(pattern)
            /\ IF CountNonEmpty(pattern) = Len(pattern)
               THEN e.word_fixed /\ e.possible_words = <<pattern>>
               ELSE /\ ~e.word_fixed
                    /\ e.possible_words = SelectSeq(words_by_length[e.length], Fits)
                    /\ CountNonEmpty(pattern) = 0 =>
                          e.possible_words = words_by_length[e.length]

\* The word of an entry fixed by the grid is no candidate of another entry.
InitialFixedWordsExcluded ==
    \A i, j \in 1..Len(state.entries) :
        (i # j /\ heap[state.entries[i]].word_fixed) =>
            Word(heap[state.entries[i]]) \notin Range(heap[state.entries[j]].possible_words)

C31_InitialCandidates ==
    ~Stepped => InitialCandidatesMatchPattern /\ InitialFixedWordsExcluded

\* The same without the exclusion of the words the grid holds.
C31_InitialCandidatesButForExclusion ==
    ~Stepped => InitialCandidatesMatchPattern

\* An initial state with an entry fixed by the grid whose word is a candidate
\* of an entry that crosses it and of one that does not.
C31_Witness ==
    /\ ~Stepped
    /\ \E i, j, k \in 1..Len(state.entries) :
          LET e == heap[state.entries[i]]
          IN  /\ e.word_fixed
              /\ j # i /\ k # i
              /\ SharesCell(e, heap[state.entries[j]])
              /\ ~SharesCell(e, heap[state.entries[k]])
              /\ Word(e) \in Range(heap[state.entries[j]].possible_words)
              /\ Word(e) \in Range(heap[state.entries[k]].possible_words)

(***************************************************************************)
(* C32.  Entry indices are 0..n-1 assigned in row-major order of the       *)
(* entry's first cell, an across entry before a down entry that starts at  *)
(* the same cell; and in every reachable state the entry stored at         *)
(* position i of state.entries has index i, with its length, coordinates   *)
(* and dependencies unchanged from the initial state.                      *)
(***************************************************************************)
\* The place of entry e in the scan: its first cell in row-major order, the
\* across entry of a cell before the down entry.
ScanRank(e) ==
    2 * (e.coordinates[1][1] * NumCols + e.coordinates[1][2])
        + (IF IsAcross(e) THEN 0 ELSE 1)

C32_IndicesFollowScanAndStay ==
    LET es == EntriesOf(heap, state)
        init == get_initial_crossword_state(layout, words_by_length)
        first == EntriesOf(init.heap, init.state)
    IN  /\ Len(es) = num_entries(layout)
        /\ Len(first) = Len(es)
        /\ \A i \in 1..Len(es) :
              /\ es[i].index = i - 1
              /\ es[i].length = first[i].length
              /\ es[i].length = Len(es[i].coordinates)
              /\ es[i].coordinates = first[i].coordinates
              /\ es[i].dependencies = first[i].dependencies
        /\ \A i, j \in 1..Len(es) : i < j => ScanRank(es[i]) < ScanRank(es[j])

\* A state after two calls of take_action on a grid in which an across and a
\* down entry start at the same cell and an entry starts in a later row.
C32_Witness ==
    /\ Stepped
    /\ Len(state.filled_entries) >= 2
    /\ \E i, j, k \in 1..Len(state.entries) :
          LET es == EntriesOf(heap, state)
          IN  /\ es[i].coordinates[1] = es[j].coordinates[1]
              /\ IsAcross(es[i]) /\ ~IsAcross(es[j])
              /\ es[k].coordinates[1][1] > es[j].coordinates[1][1]
              /\ es[k].word_fixed

(***************************************************************************)
(* C33.  The per-step statistics returned by fill_current_layout have      *)
(* exactly one row per committed move, in commit order; row i records the  *)
(* index of the entry that was next_entry_to_be_filled of the i-th search  *)
(* root, the number of candidates it had, and as word the action leading   *)
(* to the committed child, which is one of that root's possible actions    *)
(* and a key of that search's statistics table.                            *)
(***************************************************************************)
\* A step in which search returns and the driver commits the move.
CommitStep == pc = "search" /\ pc' = "loop"

C33_OneRowPerCommittedMove ==
    [][IF CommitStep
       THEN LET next_old == heap[nodes[root].state.next_entry_to_be_filled]
                child == nodes[current_node']
                row == history_statistics'[Len(history_statistics')]
            IN  /\ root = current_node
                /\ Len(history_statistics') = Len(history_statistics) + 1
                /\ SubSeq(history_statistics', 1, Len(history_statistics)) = history_statistics
                /\ current_node' \in Range(nodes[root].children)
                /\ row.index = next_old.index
                /\ row.options = Len(next_old.possible_words)
                /\ row.word = child.action_leading_here
                /\ row.word \in Range(get_possible_actions(heap, nodes[root].state))
                /\ \E k \in 1..Len(statistics') :
                      /\ statistics'[k].action = row.word
                      /\ row.expected_reward = statistics'[k].Reward
                      /\ row.num_visits = statistics'[k].Visits
                /\ Len(statistics') = Len(nodes[root].children)
       ELSE history_statistics' = history_statistics]_vars

\* The rows so far, read in the current state: as many as committed words,
\* row i holding the word that entry row.index now carries.
C33_RowsMatchCommittedWords ==
    pc \in {"loop", "done"} =>
        LET s == nodes[current_node].state
        IN  /\ Len(history_statistics) = Len(s.filled_entries)
            /\ \A i \in 1..Len(history_statistics) :
                  LET e == heap[s.entries[history_statistics[i].index + 1]]
                  IN  e.word_fixed /\ Word(e) = history_statistics[i].word
            /\ \A i, j \in 1..Len(history_statistics) :
                  i # j => history_statistics[i].index # history_statistics[j].index

\* Two moves were committed, the second for an entry that had fewer
\* candidates than the first and a lower index.
C33_Witness ==
    /\ pc \in {"loop", "done"}
    /\ Len(history_statistics) >= 2
    /\ history_statistics[2].options < history_statistics[1].options
    /\ history_statistics[2].options >= 2
    /\ history_statistics[1].word # history_statistics[2].word

(***************************************************************************)
(* C34.  Every take_action on a non-terminal state increases the number of *)
(* word-fixed entries by exactly 1 and decreases the number of empty       *)
(* entries by exactly 1, also when the action fixes the last open letter   *)
(* of a crossing entry.                                                    *)
(***************************************************************************)
C34_OneMoreFixedOneLessEmpty ==
    Stepped =>
        /\ Cardinality(FixedSet(heap, state)) = Cardinality(FixedSet(heap, prev[1])) + 1
        /\ Cardinality(EmptySet(heap, state)) = Cardinality(EmptySet(heap, prev[1])) - 1
        /\ Len(state.filled_entries) = Len(prev[1].filled_entries) + 1
        /\ Len(state.empty_entries) = Len(prev[1].empty_entries) - 1
        /\ Len(state.filled_entries) = Cardinality(FixedSet(heap, state))
        /\ Len(state.empty_entries) = Cardinality(EmptySet(heap, state))

\* The call fixed the last open letter of an entry that crosses the filled one.
C34_Witness ==
    /\ Stepped
    /\ \E i \in 1..Len(state.entries) :
          LET old == heap[prev[1].entries[i]]
              new == heap[state.entries[i]]
          IN  /\ prev[1].entries[i] # prev[1].next_entry_to_be_filled
              /\ CountNonEmpty(old.pattern) = old.length - 1
              /\ CountNonEmpty(new.pattern) = new.length
              /\ new.num_letters_fixed = new.length

(***************************************************************************)
(* C35.  After every completed round, visit counts are consistent across   *)
(* the tree: every node reachable from the root has num_visits >= 1;       *)
(* every non-terminal node that was created by expand has num_visits ==    *)
(* 1 + the sum of its children's num_visits; the root node created by the  *)
(* driver has num_visits equal to the sum of its children's num_visits;    *)
(* and each search adds exactly iteration_limit to the num_visits of its   *)
(* root and creates at most iteration_limit new nodes.                     *)
(***************************************************************************)
\* A round of the running search has been completed.
RoundCompleted == pc = "search" /\ rounds_done >= 1

\* The node the driver created (optimizer.py:216-220); all others are
\* created by expand.
DriverRoot == 1

RECURSIVE SumChildVisitsFrom(_, _, _)
SumChildVisitsFrom(ns, n, i) ==
    IF i > Len(ns[n].children) THEN 0
    ELSE ns[ns[n].children[i]].num_visits + SumChildVisitsFrom(ns, n, i + 1)

\* The sum of num_visits over the children of node n.
SumChildVisits(ns, n) == SumChildVisitsFrom(ns, n, 1)

\* num_visits of the root when the running search started: 0 for the node of
\* the driver, else the visits the statistics table held for it at its commit.
VisitsAtSearchStart ==
    IF Len(history_statistics) = 0 THEN 0
    ELSE history_statistics[Len(history_statistics)].num_visits

C35_VisitCountsConsistent ==
    RoundCompleted =>
        /\ \A n \in Descendants(nodes, root) :
              /\ nodes[n].num_visits >= 1
              /\ (n # DriverRoot /\ ~nodes[n].is_terminal) =>
                    nodes[n].num_visits = 1 + SumChildVisits(nodes, n)
              /\ n = DriverRoot =>
                    nodes[n].num_visits = SumChildVisits(nodes, n)
        /\ nodes[root].num_visits = VisitsAtSearchStart + rounds_done
        /\ rounds_done <= iteration_limit
        /\ Len(nodes) <= 1 + iteration_limit * Len(history_statistics) + rounds_done

\* The last round of a second search is completed, on a root created by
\* expand that has two visited children, one of them visited twice.
C35_Witness ==
    /\ RoundCompleted
    /\ rounds_done = iteration_limit
    /\ Len(history_statistics) >= 1
    /\ root # DriverRoot
    /\ Len(nodes[root].children) >= 2
    /\ \E c \in Range(nodes[root].children) : nodes[c].num_visits >= 2

(***************************************************************************)
(* C36.  After every completed round, every node n reachable from the root *)
(* satisfies: number of word-fixed entries of n.state <= n.reward <= total *)
(* number of entries, and n.reward <= the reward of n's parent when n has  *)
(* a parent; so the reward recorded for a committed word is never below    *)
(* the number of entries filled after committing it.                       *)
(***************************************************************************)
C36_RewardBounds ==
    /\ RoundCompleted =>
          \A n \in Descendants(nodes, root) :
              /\ Cardinality(FixedSet(heap, nodes[n].state)) <= nodes[n].reward
              /\ nodes[n].reward <= num_entries(layout)
              /\ nodes[n].parent # None => nodes[n].reward <= nodes[nodes[n].parent].reward
    /\ \A i \in 1..Len(history_statistics) :
          /\ history_statistics[i].expected_reward >= i
          /\ history_statistics[i].expected_reward <= num_entries(layout)
    /\ (pc = "loop" /\ Len(history_statistics) >= 1) =>
          history_statistics[Len(history_statistics)].expected_reward
              >= Len(nodes[current_node].state.filled_entries)

\* A tree with a node whose reward is above its number of filled entries and
\* below the reward of its parent.
C36_Witness ==
    /\ RoundCompleted
    /\ \E n \in Descendants(nodes, root) :
          /\ nodes[n].parent # None
          /\ nodes[n].reward > Cardinality(FixedSet(heap, nodes[n].state))
          /\ nodes[n].reward < nodes[nodes[n].parent].reward

\* A move was committed whose recorded reward is above the number of entries
\* then filled, and a round of the next search is completed.
C36_WitnessCommitted ==
    /\ RoundCompleted
    /\ Len(history_statistics) >= 1
    /\ history_statistics[1].expected_reward > 1
    /\ \E n \in Descendants(nodes, root) :
          /\ nodes[n].parent # None
          /\ nodes[n].reward < nodes[nodes[n].parent].reward

====
